---- MODULE Spec2Model ----
(***************************************************************************)
(* A model of the ralph-orchestrator core: the event parser                *)
(* (crates/ralph-core/src/event_parser.rs), the Ctrl+C state machine and   *)
(* the PTY executor (crates/ralph-adapters/src/pty_executor.rs), topic     *)
(* matching (crates/ralph-proto/src/topic.rs), and the dispatcher's        *)
(* backpressure gate.                                                      *)
(*                                                                         *)
(* Text is a sequence of one-character strings; offsets are 0-based as in  *)
(* the Rust source and None is -1 for an Option<usize>.                    *)
(***************************************************************************)
EXTENDS Integers, Sequences, FiniteSets, TLC

VARIABLES
    \* ---- event parser (one call of contains_promise, parse or strip_event_tags) ----
    output,          \* the agent output handed to the parser
    promise,         \* the completion sentinel
    stripped,        \* strip_event_tags(output), once computed
    found,           \* the value contains_promise returned
    ppc,             \* "input" before the call, "done" after it
    pieces,          \* history: the pieces the output was written from
    events,          \* the events parse(output) returned
    restripped,      \* strip_event_tags(stripped), once computed
    \* ---- CtrlCState ----
    first_press,     \* None, or the time elapsed since the recorded first press
    presses,         \* history: <<first_press before the press, action returned>>
    \* ---- PtyExecutor: configuration and environment of one invocation ----
    mode,            \* "observe" (run_observe) or "interactive" (run_interactive)
    idle_timeout_secs,
    blocking_read,   \* the master reader blocks when no output is pending
    has_pid,         \* child.process_id() is Some
    \* ---- PtyExecutor: the main loop ----
    pc,              \* position of the main loop
    child,           \* "running", "exited" (not yet reaped) or "reaped"
    pty_pending,     \* bytes the child wrote that the master has not read yet
    pty_output,      \* `output`, the accumulated bytes
    host_stdout,     \* bytes written through to the host stdout
    input_rx,        \* the channel of InputEvents from the stdin reader thread
    last_activity,   \* last_activity.elapsed()
    start,           \* terminate_child: start.elapsed()
    graceful,        \* terminate_child: its argument
    termination,
    should_terminate,
    force_kill,
    returned,        \* the termination field of the Ok result, or the call whose Err is returned
    \* ---- PtyExecutor: history ----
    emitted,         \* number of bytes the child has written
    typed,           \* number of bytes the stdin reader has read
    master_writes,   \* bytes written to the PTY master by the main loop
    signals,         \* signals sent to the child, in order
    checked_elapsed, \* last_activity.elapsed() at the latest timeout check
    backslash_seen,  \* a Ctrl+\ event was processed while the child was running
    exited_itself,   \* the child exited before any signal was sent to it
    \* ---- dispatcher ----
    dpc,             \* "idle", "exec" (the executor runs), "gate", "terminated"
    queue,           \* the pending event queue
    journal,         \* the event journal
    parsed,          \* the events parsed from the iteration's output, not yet gated
    produced,        \* number of events the agent has emitted in this run
    \* ---- parse_backpressure_evidence (one call) ----
    ev_payload,      \* the payload handed to parse_backpressure_evidence
    evidence,        \* the Option<BackpressureEvidence> it returned
    passed,          \* the evidence is Some and all_passed() is true
    epc,             \* "input" before the call, "done" after it
    \* ---- Topic::matches (one call) ----
    topic_self,      \* the pattern, `self`
    topic_arg,       \* the topic matched against it
    matched,         \* the value matches returned
    tpc,             \* "input" before the call, "done" after it
    \* ---- routing of one dequeued event ----
    registry,        \* the configured hats in registration order: their subscriptions
    route_topic,     \* the topic of the dequeued event
    chosen,          \* the hat chosen for the iteration: its position, or Ralph
    rpc,             \* "input" before the resolution, "done" after it
    \* ---- prompt composition (one call of a composer) ----
    composer,        \* "planner", "builder", "custom", "ralph" or "event_loop"
    instruction_builder, \* the InstructionBuilder, `self`
    hatless_ralph,   \* the HatlessRalph, `self`
    custom_hat,      \* the Hat handed to build_custom_hat
    incoming,        \* the context string handed to the composer
    template,        \* event_loop.initial_prompt_template, an Option
    prompt,          \* the prompt returned
    cpc,             \* "input" before the call, "done" after it
    \* ---- InputRouter ----
    input_mode,      \* self.mode: "Normal" or "AwaitingCommand"
    routed,          \* history: the calls of route_key, in order
    \* ---- ScrollManager ----
    offset,
    total_lines,
    viewport_height,
    scroll_call,     \* history: the latest call, with the offset and maximum before it
    scroll_panicked, \* an arithmetic overflow check has panicked
    \* ---- `ralph web`: execute ----
    xpc,             \* position of execute
    backend,         \* the backend server: "none", "running", "exited" or "reaped"
    frontend,        \* the frontend server, likewise
    shutdown,        \* the signals whose handler task has sent on the shutdown channel
    web_signals,     \* history: the signals sent to the servers, in order
    web_exit,        \* the path execute returned on
    \* ---- PtyExecutor: invocations one after another ----
    inv,             \* the number of the invocation running or last run
    ipc,             \* position of the executor in it
    inv_mode,        \* "observe" or "interactive"
    stdin_input,     \* the backend's build_command supplied a stdin payload
    writer_takes,    \* successful take_writer calls on this invocation's master
    outcomes,        \* history: how each invocation so far has ended
    readers,         \* the stdin reader thread of each invocation: its position
    flags,           \* the should_terminate flag of each invocation
    rx_open,         \* the input_rx of each invocation is alive
    stdin_bytes,     \* history: the bytes read from host stdin, in order
    \* ---- the TUI: App::run, the observer, the PTY output task ----
    apc,             \* position of App::run
    exit_path,       \* how App::run left its loop or returned
    raw_mode,        \* the terminal is in raw mode
    alt_screen,      \* the terminal shows the alternate screen
    state_lock,      \* Mutex<TuiState>: "free", its holder, or "poisoned"
    widget_lock,     \* Mutex<TerminalWidget>: "free", its holder, or "poisoned"
    opc,             \* position of the observer callback
    observed,        \* number of events the dispatcher has handed to the observer
    wpc,             \* position of the PTY output task
    chunks           \* number of output chunks the PTY output task has received

parserVars == <<output, promise, stripped, found, ppc, pieces, events, restripped>>

ctrlVars == <<first_press, presses>>

ptyConf == <<mode, idle_timeout_secs, blocking_read, has_pid>>

ptyLoop ==
    <<pc, child, pty_pending, pty_output, host_stdout, input_rx, last_activity, start,
      graceful, termination, should_terminate, force_kill, returned>>

ptyHist ==
    <<emitted, typed, master_writes, signals, checked_elapsed, backslash_seen,
      exited_itself>>

ptyVars == <<ptyConf, ptyLoop, ptyHist>>

dispVars == <<dpc, queue, journal, parsed, produced>>

evidVars == <<ev_payload, evidence, passed, epc>>

topicVars == <<topic_self, topic_arg, matched, tpc>>

routeVars == <<registry, route_topic, chosen, rpc>>

promptVars ==
    <<composer, instruction_builder, hatless_ralph, custom_hat, incoming,
      template, prompt, cpc>>

inputVars == <<input_mode, routed>>

scrollVars == <<offset, total_lines, viewport_height, scroll_call, scroll_panicked>>

webVars == <<xpc, backend, frontend, shutdown, web_signals, web_exit>>

sessionVars ==
    <<inv, ipc, inv_mode, stdin_input, writer_takes, outcomes, readers, flags,
      rx_open, stdin_bytes>>

sideVars == <<inputVars, scrollVars, webVars, sessionVars>>

pureVars == <<evidVars, topicVars, routeVars, promptVars, sideVars>>

tuiVars ==
    <<apc, exit_path, raw_mode, alt_screen, state_lock, widget_lock, opc,
      observed, wpc, chunks>>

vars == <<parserVars, ctrlVars, ptyVars, dispVars, pureVars, tuiVars>>

\* ------------------------------------------------------------------ text

None == -1

\* s[from..]
SliceFrom(s, from) == SubSeq(s, from + 1, Len(s))

\* s[..to]
SliceTo(s, to) == SubSeq(s, 1, to)

\* str::find: the 0-based offset of the first occurrence of pat in s, or None
Find(s, pat) ==
    LET hits == { i \in 0..(Len(s) - Len(pat)) : SubSeq(s, i + 1, i + Len(pat)) = pat }
    IN  IF hits = {} THEN None ELSE CHOOSE i \in hits : \A j \in hits : i <= j

\* str::contains
Contains(s, pat) == Find(s, pat) # None

\* the offsets at which pat occurs in s
Occurrences(s, pat) ==
    { i \in 0..(Len(s) - Len(pat)) : SubSeq(s, i + 1, i + Len(pat)) = pat }

RECURSIVE Concat(_)
Concat(ss) == IF ss = <<>> THEN <<>> ELSE Head(ss) \o Concat(Tail(ss))

\* the literal "<event " (7 characters) and "</event>" (8 characters)
EventOpen == <<"<", "e", "v", "e", "n", "t", " ">>
EventClose == <<"<", "/", "e", "v", "e", "n", "t", ">">>

\* ---------------------------------------------------------- event parser

\* EventParser::strip_event_tags: the while loop, result and remaining
RECURSIVE StripLoop(_, _)
StripLoop(result, remaining) ==
    LET start_idx == Find(remaining, EventOpen)
    IN  IF start_idx = None
        THEN result \o remaining
        ELSE LET result1 == result \o SliceTo(remaining, start_idx)
                 after_start == SliceFrom(remaining, start_idx)
                 close_idx == Find(after_start, EventClose)
             IN  IF close_idx # None
                 THEN StripLoop(result1, SliceFrom(after_start, close_idx + 8))
                 ELSE result1 \o after_start

\* the same loop with the unclosed tail dropped instead of kept
StripDroppingTail(o) ==
    LET RECURSIVE Loop(_, _)
        Loop(result, remaining) ==
            LET start_idx == Find(remaining, EventOpen)
            IN  IF start_idx = None
                THEN result \o remaining
                ELSE LET result1 == result \o SliceTo(remaining, start_idx)
                         after_start == SliceFrom(remaining, start_idx)
                         close_idx == Find(after_start, EventClose)
                     IN  IF close_idx # None
                         THEN Loop(result1, SliceFrom(after_start, close_idx + 8))
                         ELSE result1
    IN  Loop(<<>>, o)

strip_event_tags(o) == StripLoop(<<>>, o)

\* EventParser::contains_promise
contains_promise(o, p) == Contains(strip_event_tags(o), p)


\* ------------------------------------------- the parts that are not running

ParserIdle ==
    /\ output = <<>>
    /\ promise = <<>>
    /\ stripped = <<>>
    /\ found = FALSE
    /\ ppc = "none"
    /\ pieces = <<>>
    /\ events = <<>>
    /\ restripped = <<>>

CtrlIdle ==
    /\ first_press = None
    /\ presses = <<>>

PtyIdle ==
    /\ mode = "none"
    /\ idle_timeout_secs = 0
    /\ blocking_read = FALSE
    /\ has_pid = FALSE
    /\ pc = "none"
    /\ child = "none"
    /\ pty_pending = <<>>
    /\ pty_output = <<>>
    /\ host_stdout = <<>>
    /\ input_rx = <<>>
    /\ last_activity = 0
    /\ start = 0
    /\ graceful = FALSE
    /\ termination = "Natural"
    /\ should_terminate = FALSE
    /\ force_kill = FALSE
    /\ returned = "none"
    /\ emitted = 0
    /\ typed = 0
    /\ master_writes = <<>>
    /\ signals = <<>>
    /\ checked_elapsed = 0
    /\ backslash_seen = FALSE
    /\ exited_itself = FALSE

DispIdle ==
    /\ dpc = "none"
    /\ queue = <<>>
    /\ journal = <<>>
    /\ parsed = <<>>
    /\ produced = 0

EvidIdle ==
    /\ ev_payload = <<>>
    /\ evidence = {}
    /\ passed = FALSE
    /\ epc = "none"

TopicIdle ==
    /\ topic_self = <<>>
    /\ topic_arg = <<>>
    /\ matched = FALSE
    /\ tpc = "none"

RouteIdle ==
    /\ registry = <<>>
    /\ route_topic = <<>>
    /\ chosen = 0
    /\ rpc = "none"

PromptIdle ==
    /\ composer = "none"
    /\ instruction_builder = <<>>
    /\ hatless_ralph = <<>>
    /\ custom_hat = <<>>
    /\ incoming = <<>>
    /\ template = {}
    /\ prompt = <<>>
    /\ cpc = "none"

InputIdle ==
    /\ input_mode = "none"
    /\ routed = <<>>

ScrollIdle ==
    /\ offset = 0
    /\ total_lines = 0
    /\ viewport_height = 0
    /\ scroll_call = [op |-> "none", before |-> 0, max |-> 0]
    /\ scroll_panicked = FALSE

WebIdle ==
    /\ xpc = "none"
    /\ backend = "none"
    /\ frontend = "none"
    /\ shutdown = {}
    /\ web_signals = <<>>
    /\ web_exit = "none"

SessionIdle ==
    /\ inv = 0
    /\ ipc = "none"
    /\ inv_mode = "none"
    /\ stdin_input = FALSE
    /\ writer_takes = 0
    /\ outcomes = <<>>
    /\ readers = <<>>
    /\ flags = <<>>
    /\ rx_open = <<>>
    /\ stdin_bytes = <<>>

SideIdle == InputIdle /\ ScrollIdle /\ WebIdle /\ SessionIdle

PureIdle == EvidIdle /\ TopicIdle /\ RouteIdle /\ PromptIdle /\ SideIdle

TuiIdle ==
    /\ apc = "none"
    /\ exit_path = "none"
    /\ raw_mode = FALSE
    /\ alt_screen = FALSE
    /\ state_lock = "free"
    /\ widget_lock = "free"
    /\ opc = "none"
    /\ observed = 0
    /\ wpc = "none"
    /\ chunks = 0

\* ------------------------------------------------- parser specification

\* bounds of the parser inputs
MaxSyms == 4

\* the pieces outputs are built from: the two tag literals, the characters
\* of the sentinel and a filler character
OutputSyms == { EventOpen, EventClose, <<"L">>, <<"C">>, <<"x">> }

RECURSIVE SymSeqs(_, _)
SymSeqs(syms, n) ==
    IF n = 0 THEN { <<>> }
    ELSE LET shorter == SymSeqs(syms, n - 1)
         IN  shorter \cup { Append(q, s) : q \in { r \in shorter : Len(r) = n - 1 }, s \in syms }

Outputs == { Concat(q) : q \in SymSeqs(OutputSyms, MaxSyms) }

Sentinels == { <<"L", "C">>, <<"C">> }

ParserInit ==
    /\ CtrlIdle
    /\ PtyIdle
    /\ DispIdle
    /\ PureIdle
    /\ TuiIdle
    /\ output \in Outputs
    /\ promise \in Sentinels
    /\ stripped = <<>>
    /\ found = FALSE
    /\ ppc = "input"
    /\ pieces = <<>>
    /\ events = <<>>
    /\ restripped = <<>>

\* one call EventParser::contains_promise(output, promise)
ContainsPromise ==
    /\ ppc = "input"
    /\ stripped' = strip_event_tags(output)
    /\ found' = contains_promise(output, promise)
    /\ ppc' = "done"
    /\ UNCHANGED <<output, promise, pieces, events, restripped, ctrlVars, ptyVars, dispVars, pureVars, tuiVars>>

ParserNext == ContainsPromise

SpecParser == ParserInit /\ [][ParserNext]_vars

\* ------------------------------------------------ claims on the parser

\* the first offset >= from at which pat occurs in s, or None
FindFrom(s, pat, from) ==
    LET hits == { i \in Occurrences(s, pat) : i >= from }
    IN  IF hits = {} THEN None ELSE CHOOSE i \in hits : \A j \in hits : i <= j

\* the closed event blocks of o, each <<offset of its "<event ", offset just
\* past its matching "</event>">>, read left to right
RECURSIVE BlocksFrom(_, _)
BlocksFrom(o, from) ==
    LET b == FindFrom(o, EventOpen, from)
    IN  IF b = None THEN {}
        ELSE LET c == FindFrom(o, EventClose, b)
             IN  IF c = None THEN {} ELSE { <<b, c + 8>> } \cup BlocksFrom(o, c + 8)

EventBlocks(o) == BlocksFrom(o, 0)

\* the offset of the "<event " opener that no "</event>" follows, or None
RECURSIVE UnclosedFrom(_, _)
UnclosedFrom(o, from) ==
    LET b == FindFrom(o, EventOpen, from)
    IN  IF b = None THEN None
        ELSE LET c == FindFrom(o, EventClose, b)
             IN  IF c = None THEN b ELSE UnclosedFrom(o, c + 8)

UnclosedOpener(o) == UnclosedFrom(o, 0)

\* the occurrence of p at offset i lies between an opener and its closer
InsideBlock(o, p, i) ==
    \E blk \in EventBlocks(o) : blk[1] + 7 <= i /\ i + Len(p) <= blk[2] - 8

\* C1 (as claimed): contains_promise is false whenever every occurrence of
\* the sentinel in the output lies between an "<event " opener and its
\* matching "</event>" closer, the output without any occurrence included.
C1_PromiseOnlyInsideBlocksNotDetected ==
    (ppc = "done" /\ \A i \in Occurrences(output, promise) : InsideBlock(output, promise, i))
        => found = FALSE

\* C2 (as claimed): a trailing "<event " opener without closer is an event
\* block: the text from it to the end of the output is stripped, so a
\* sentinel that appears only after the unclosed opener is not detected.
C2_UnclosedTailStripped ==
    (ppc = "done" /\ UnclosedOpener(output) # None)
        => /\ ~Contains(stripped, EventOpen)
           /\ (\A i \in Occurrences(output, promise) : i >= UnclosedOpener(output))
                  => found = FALSE

\* C2 (amended): the text from a trailing "<event " opener without closer to
\* the end of the output is kept by strip_event_tags, so a sentinel that
\* appears after the unclosed opener is detected.
C2_UnclosedTailKept ==
    (ppc = "done" /\ UnclosedOpener(output) # None)
        => LET tail == SliceFrom(output, UnclosedOpener(output))
           IN  /\ Len(stripped) >= Len(tail)
               /\ SliceFrom(stripped, Len(stripped) - Len(tail)) = tail
               /\ Contains(tail, promise) => found = TRUE

C2_Witness ==
    /\ ppc = "done"
    /\ UnclosedOpener(output) # None
    /\ Occurrences(output, promise) # {}
    /\ \A i \in Occurrences(output, promise) : i >= UnclosedOpener(output)
    /\ found = TRUE

\* ------------------------------------------------------------ CtrlCState

\* time is counted in units; the model's resolution
UnitsPerSec == 1

\* CtrlCState::new: window = Duration::from_secs(1)
window == 1 * UnitsPerSec

\* clocks stop counting one unit past the largest duration they are compared to
Saturate(t, cap) == IF t < cap THEN t + 1 ELSE cap

\* handle_ctrl_c with the window check off by one (<= for <)
HandleCtrlCInclusive(first) ==
    IF first # None /\ first <= window
    THEN [action |-> "Terminate", first_press |-> None]
    ELSE [action |-> "ForwardAndStartWindow", first_press |-> 0]

\* CtrlCState::handle_ctrl_c; `first` is now.duration_since(first), or None
\* when first_press is None. Returns the action and the new first_press.
handle_ctrl_c(first) ==
    IF first # None /\ first < window
    THEN [action |-> "Terminate", first_press |-> None]
    ELSE [action |-> "ForwardAndStartWindow", first_press |-> 0]

\* bound of the Ctrl+C specification
MaxPresses == 5

CtrlCInit ==
    /\ ParserIdle
    /\ PtyIdle
    /\ DispIdle
    /\ PureIdle
    /\ TuiIdle
    /\ first_press = None
    /\ presses = <<>>

\* time passes between two presses
CtrlCTick ==
    /\ first_press # None
    /\ first_press' = Saturate(first_press, window + 1)
    /\ UNCHANGED <<presses, parserVars, ptyVars, dispVars, pureVars, tuiVars>>

\* one call state.handle_ctrl_c(now)
CtrlCPress ==
    /\ Len(presses) < MaxPresses
    /\ LET r == handle_ctrl_c(first_press)
       IN  /\ first_press' = r.first_press
           /\ presses' = Append(presses, <<first_press, r.action>>)
    /\ UNCHANGED <<parserVars, ptyVars, dispVars, pureVars, tuiVars>>

CtrlCNext == CtrlCTick \/ CtrlCPress

SpecCtrlC == CtrlCInit /\ [][CtrlCNext]_vars

\* C4: a press returns Terminate and clears first_press exactly when a first
\* press is recorded and lies within the 1-second window; every other press
\* records its time and returns ForwardAndStartWindow. So a press within the
\* window of a forwarded one terminates, a press more than 1 s after it is
\* forwarded again, and the press after a Terminate is never a Terminate.
C4_CtrlCStateMachine ==
    /\ \A k \in 1..Len(presses) :
          /\ presses[k][2] = "Terminate" <=> (presses[k][1] # None /\ presses[k][1] < window)
          /\ presses[k][2] \in {"Terminate", "ForwardAndStartWindow"}
          /\ k = 1 => presses[k] = <<None, "ForwardAndStartWindow">>
          /\ (k > 1 /\ presses[k - 1][2] = "Terminate")
                => presses[k] = <<None, "ForwardAndStartWindow">>
          /\ (k > 1 /\ presses[k - 1][2] = "ForwardAndStartWindow") => presses[k][1] # None
          /\ (presses[k][1] # None /\ presses[k][1] > window)
                => presses[k][2] = "ForwardAndStartWindow"
    /\ (presses # <<>> /\ presses[Len(presses)][2] = "Terminate") => first_press = None
    /\ (presses # <<>> /\ presses[Len(presses)][2] = "ForwardAndStartWindow")
          => first_press # None

\* a forwarded press, a second one within the window, then two presses more
\* than 1 s apart
C4_Witness ==
    /\ Len(presses) = 4
    /\ presses[1] = <<None, "ForwardAndStartWindow">>
    /\ presses[2] = <<0, "Terminate">>
    /\ presses[3] = <<None, "ForwardAndStartWindow">>
    /\ presses[4] = <<window + 1, "ForwardAndStartWindow">>

\* ----------------------------------------------------------- PtyExecutor

\* bounds of one executor invocation
MaxTimeoutSecs == 1
MaxOutput == 1
MaxInput == 2

\* the bytes the stdin reader thread classifies
CtrlCByte == 3
CtrlBackslashByte == 28
DataByte == 97

\* terminate_child: grace_period = Duration::from_secs(5)
grace_period == 5 * UnitsPerSec

IdleCap == MaxTimeoutSecs * UnitsPerSec + 1

\* the timeout with idle_timeout_secs = 0 taken as a zero duration
TimeoutZeroIsZero(secs) == secs * UnitsPerSec

\* `timeout`: Some(Duration::from_secs(idle_timeout_secs)) if it is > 0, else None
timeout(secs) == IF secs > 0 THEN secs * UnitsPerSec ELSE None

\* the idle-timeout test of both main loops
IdleExpired(secs, elapsed) == timeout(secs) # None /\ elapsed > timeout(secs)

\* the stdin reader thread's classification of one byte
InputEvent(byte) ==
    IF byte = CtrlCByte THEN "CtrlC"
    ELSE IF byte = CtrlBackslashByte THEN "CtrlBackslash"
    ELSE "Data"

\* every Ctrl+C is forwarded, the terminating one too
ForwardEveryCtrlC(action) == <<CtrlCByte>>

\* the bytes the main loop writes to the master for a Ctrl+C event
CtrlCForwarded(action) ==
    IF action = "ForwardAndStartWindow" THEN <<CtrlCByte>> ELSE <<>>

\* SIGKILL right after SIGTERM, without the grace period
GraceAlwaysElapsed(elapsed) == TRUE

\* terminate_child: the negation of the loop condition start.elapsed() < grace_period
GraceElapsed(elapsed) == ~(elapsed < grace_period)

InteractiveMode == mode = "interactive"

PtyInit ==
    /\ ParserIdle
    /\ CtrlIdle
    /\ DispIdle
    /\ PureIdle
    /\ TuiIdle
    /\ mode \in {"observe", "interactive"}
    /\ idle_timeout_secs \in 0..MaxTimeoutSecs
    /\ blocking_read \in BOOLEAN
    /\ has_pid \in BOOLEAN
    /\ pc = "try_wait"
    /\ child = "running"
    /\ pty_pending = <<>>
    /\ pty_output = <<>>
    /\ host_stdout = <<>>
    /\ input_rx = <<>>
    /\ last_activity = 0
    /\ start = 0
    /\ graceful = FALSE
    /\ termination = "Natural"
    /\ should_terminate = FALSE
    /\ force_kill = FALSE
    /\ returned = "none"
    /\ emitted = 0
    /\ typed = 0
    /\ master_writes = <<>>
    /\ signals = <<>>
    /\ checked_elapsed = 0
    /\ backslash_seen = FALSE
    /\ exited_itself = FALSE

Running == pc \notin {"none", "returned_ok", "returned_err"}

\* ---- the environment: the child, the user, the clock ----

\* the child writes one byte to its terminal; an invocation in observe mode,
\* which takes no input, is explored with one more byte of output
ChildOutput ==
    /\ Running
    /\ child = "running"
    /\ emitted < (IF mode = "observe" THEN MaxOutput + 1 ELSE MaxOutput)
    /\ emitted' = emitted + 1
    /\ pty_pending' = Append(pty_pending, emitted + 1)
    /\ UNCHANGED <<parserVars, ctrlVars, ptyConf, dispVars, pureVars, tuiVars>>
    /\ UNCHANGED <<pc, child, pty_output, host_stdout, input_rx, last_activity, start,
                   graceful, termination, should_terminate, force_kill, returned>>
    /\ UNCHANGED <<typed, master_writes, signals, checked_elapsed, backslash_seen,
                   exited_itself>>

\* the child exits by itself
ChildExit ==
    /\ Running
    /\ child = "running"
    /\ child' = "exited"
    /\ exited_itself' = (exited_itself \/ signals = <<>>)
    /\ UNCHANGED <<parserVars, ctrlVars, ptyConf, dispVars, pureVars, tuiVars>>
    /\ UNCHANGED <<pc, pty_pending, pty_output, host_stdout, input_rx, last_activity, start,
                   graceful, termination, should_terminate, force_kill, returned>>
    /\ UNCHANGED <<emitted, typed, master_writes, signals, checked_elapsed, backslash_seen>>

\* the stdin reader thread reads one byte and sends its event
StdinReader ==
    /\ Running
    /\ InteractiveMode
    /\ typed < MaxInput
    /\ \E byte \in {CtrlCByte, CtrlBackslashByte, DataByte} :
          input_rx' = Append(input_rx, InputEvent(byte))
    /\ typed' = typed + 1
    /\ UNCHANGED <<parserVars, ctrlVars, ptyConf, dispVars, pureVars, tuiVars>>
    /\ UNCHANGED <<pc, child, pty_pending, pty_output, host_stdout, last_activity, start,
                   graceful, termination, should_terminate, force_kill, returned>>
    /\ UNCHANGED <<emitted, master_writes, signals, checked_elapsed, backslash_seen,
                   exited_itself>>

\* one unit of time passes. The grace loop of terminate_child polls every
\* 100 ms, more often than the clock counts: no time passes between the loop
\* test and its try_wait, and a sleep ends with the unit it is in
Tick ==
    /\ Running
    /\ pc # "term_poll"
    /\ last_activity' = Saturate(last_activity, IdleCap)
    /\ first_press' = IF first_press = None THEN None ELSE Saturate(first_press, window)
    /\ start' = IF pc = "term_sleep" THEN Saturate(start, grace_period) ELSE start
    /\ pc' = IF pc = "term_sleep" THEN "term_poll" ELSE pc
    /\ UNCHANGED <<parserVars, presses, ptyConf, dispVars, pureVars, tuiVars>>
    /\ UNCHANGED <<child, pty_pending, pty_output, host_stdout, input_rx,
                   graceful, termination, should_terminate, force_kill, returned>>
    /\ UNCHANGED ptyHist

\* ---- the main loop of run_observe and run_interactive ----

\* what every step of the main loop leaves alone
LoopFrame == UNCHANGED <<parserVars, dispVars, pureVars, tuiVars, ptyConf, emitted, typed, exited_itself>>

\* kill(pid, sig): SIGKILL ends a running child, SIGTERM leaves the exit to it
Kill(sig) ==
    /\ signals' = Append(signals, [sig |-> sig, alive |-> child = "running",
                                   reaped |-> child = "reaped", elapsed |-> start])
    /\ child' = IF sig = "SIGKILL" /\ child = "running" THEN "exited" ELSE child

\* loop top: child.try_wait() returns Ok
TryWait ==
    /\ pc = "try_wait"
    /\ IF child # "running"
       THEN child' = "reaped" /\ pc' = "drain"
       ELSE child' = child /\ pc' = "check_timeout"
    /\ LoopFrame
    /\ UNCHANGED <<ctrlVars, pty_pending, pty_output, host_stdout, input_rx, last_activity,
                   start, graceful, termination, should_terminate, force_kill, returned,
                   master_writes, signals, checked_elapsed, backslash_seen>>

\* loop top: child.try_wait() returns Err, which `?` returns
TryWaitErr ==
    /\ pc = "try_wait"
    /\ pc' = "returned_err"
    /\ returned' = "try_wait_error"
    /\ LoopFrame
    /\ UNCHANGED <<ctrlVars, child, pty_pending, pty_output, host_stdout, input_rx,
                   last_activity, start, graceful, termination, should_terminate, force_kill,
                   master_writes, signals, checked_elapsed, backslash_seen>>

\* the drain after the child's exit: reader.read returns Ok(n), n > 0
DrainData ==
    /\ pc = "drain"
    /\ pty_pending # <<>>
    /\ \E n \in 1..Len(pty_pending) :
          /\ host_stdout' = host_stdout \o SubSeq(pty_pending, 1, n)
          /\ pty_output' = pty_output \o SubSeq(pty_pending, 1, n)
          /\ pty_pending' = SubSeq(pty_pending, n + 1, Len(pty_pending))
    /\ LoopFrame
    /\ UNCHANGED <<ctrlVars, pc, child, input_rx, last_activity, start, graceful, termination,
                   should_terminate, force_kill, returned, master_writes, signals,
                   checked_elapsed, backslash_seen>>

\* the drain: write_all or flush on the host stdout fails, which `?` returns;
\* any part of the bytes read may have been written by then
DrainStdoutErr ==
    /\ pc = "drain"
    /\ pty_pending # <<>>
    /\ \E n \in 1..Len(pty_pending) : \E written \in 0..n :
          /\ host_stdout' = host_stdout \o SubSeq(pty_pending, 1, written)
          /\ pty_pending' = SubSeq(pty_pending, n + 1, Len(pty_pending))
    /\ pc' = "returned_err"
    /\ returned' = "stdout_error"
    /\ LoopFrame
    /\ UNCHANGED <<ctrlVars, child, pty_output, input_rx, last_activity, start, graceful,
                   termination, should_terminate, force_kill, master_writes, signals,
                   checked_elapsed, backslash_seen>>

\* the drain: Ok(0) or WouldBlock ends it and the result is returned; the
\* interactive loop stores should_terminate first
DrainEnd ==
    /\ pc = "drain"
    /\ pty_pending = <<>>
    /\ should_terminate' = (should_terminate \/ InteractiveMode)
    /\ returned' = termination
    /\ pc' = "returned_ok"
    /\ LoopFrame
    /\ UNCHANGED <<ctrlVars, child, pty_pending, pty_output, host_stdout, input_rx,
                   last_activity, start, graceful, termination, force_kill, master_writes,
                   signals, checked_elapsed, backslash_seen>>

\* the drain: any other read error; run_observe returns it, run_interactive
\* breaks and returns the result
DrainReadErr ==
    /\ pc = "drain"
    /\ IF InteractiveMode
       THEN /\ should_terminate' = TRUE
            /\ returned' = termination
            /\ pc' = "returned_ok"
       ELSE /\ pc' = "returned_err"
            /\ returned' = "read_error"
            /\ UNCHANGED should_terminate
    /\ LoopFrame
    /\ UNCHANGED <<ctrlVars, child, pty_pending, pty_output, host_stdout, input_rx,
                   last_activity, start, graceful, termination, force_kill, master_writes,
                   signals, checked_elapsed, backslash_seen>>

\* the idle-timeout check
CheckTimeout ==
    /\ pc = "check_timeout"
    /\ checked_elapsed' = last_activity
    /\ IF IdleExpired(idle_timeout_secs, last_activity)
       THEN /\ termination' = "IdleTimeout"
            /\ should_terminate' = (should_terminate \/ InteractiveMode)
            /\ graceful' = TRUE
            /\ pc' = "terminate_child"
       ELSE /\ pc' = IF InteractiveMode THEN "check_force_kill" ELSE "read"
            /\ UNCHANGED <<termination, should_terminate, graceful>>
    /\ LoopFrame
    /\ UNCHANGED <<ctrlVars, child, pty_pending, pty_output, host_stdout, input_rx,
                   last_activity, start, force_kill, returned, master_writes, signals,
                   backslash_seen>>

\* run_interactive: the force-kill flag check
CheckForceKill ==
    /\ pc = "check_force_kill"
    /\ IF force_kill
       THEN /\ termination' = "ForceKill"
            /\ should_terminate' = TRUE
            /\ graceful' = FALSE
            /\ pc' = "terminate_child"
       ELSE /\ pc' = "process_input"
            /\ UNCHANGED <<termination, should_terminate, graceful>>
    /\ LoopFrame
    /\ UNCHANGED <<ctrlVars, child, pty_pending, pty_output, host_stdout, input_rx,
                   last_activity, start, force_kill, returned, master_writes, signals,
                   checked_elapsed, backslash_seen>>

\* run_interactive: try_recv yields InputEvent::CtrlC
InputCtrlC ==
    /\ pc = "process_input"
    /\ input_rx # <<>>
    /\ Head(input_rx) = "CtrlC"
    /\ input_rx' = Tail(input_rx)
    /\ LET r == handle_ctrl_c(first_press)
       IN  /\ first_press' = r.first_press
           /\ presses' = Append(presses, <<first_press, r.action>>)
           /\ master_writes' = master_writes \o CtrlCForwarded(r.action)
           /\ IF r.action = "ForwardAndStartWindow"
              THEN /\ last_activity' = 0
                   /\ UNCHANGED <<pc, termination, should_terminate, graceful>>
              ELSE /\ termination' = "UserInterrupt"
                   /\ should_terminate' = TRUE
                   /\ graceful' = TRUE
                   /\ pc' = "terminate_child"
                   /\ UNCHANGED last_activity
    /\ LoopFrame
    /\ UNCHANGED <<child, pty_pending, pty_output, host_stdout, start, force_kill, returned,
                   signals, checked_elapsed, backslash_seen>>

\* run_interactive: try_recv yields InputEvent::CtrlBackslash
InputCtrlBackslash ==
    /\ pc = "process_input"
    /\ input_rx # <<>>
    /\ Head(input_rx) = "CtrlBackslash"
    /\ input_rx' = Tail(input_rx)
    /\ force_kill' = TRUE
    /\ backslash_seen' = (backslash_seen \/ child = "running")
    /\ LoopFrame
    /\ UNCHANGED <<ctrlVars, pc, child, pty_pending, pty_output, host_stdout, last_activity,
                   start, graceful, termination, should_terminate, returned, master_writes,
                   signals, checked_elapsed>>

\* run_interactive: try_recv yields InputEvent::Data
InputData ==
    /\ pc = "process_input"
    /\ input_rx # <<>>
    /\ Head(input_rx) = "Data"
    /\ input_rx' = Tail(input_rx)
    /\ master_writes' = Append(master_writes, DataByte)
    /\ last_activity' = 0
    /\ LoopFrame
    /\ UNCHANGED <<ctrlVars, pc, child, pty_pending, pty_output, host_stdout, start, graceful,
                   termination, should_terminate, force_kill, returned, signals,
                   checked_elapsed, backslash_seen>>

\* run_interactive: the channel is empty and should_terminate is not set
InputDone ==
    /\ pc = "process_input"
    /\ input_rx = <<>>
    /\ pc' = "read"
    /\ LoopFrame
    /\ UNCHANGED <<ctrlVars, child, pty_pending, pty_output, host_stdout, input_rx,
                   last_activity, start, graceful, termination, should_terminate, force_kill,
                   returned, master_writes, signals, checked_elapsed, backslash_seen>>

\* a read that writes the bytes through without accumulating them
ReadDataUncaptured ==
    /\ pc = "read"
    /\ pty_pending # <<>>
    /\ \E n \in 1..Len(pty_pending) :
          /\ host_stdout' = host_stdout \o SubSeq(pty_pending, 1, n)
          /\ pty_output' = pty_output
          /\ pty_pending' = SubSeq(pty_pending, n + 1, Len(pty_pending))
    /\ last_activity' = 0
    /\ pc' = "try_wait"
    /\ LoopFrame
    /\ UNCHANGED <<ctrlVars, child, input_rx, start, graceful, termination, should_terminate,
                   force_kill, returned, master_writes, signals, checked_elapsed,
                   backslash_seen>>

\* the read of the main loop returns Ok(n), n > 0
ReadData ==
    /\ pc = "read"
    /\ pty_pending # <<>>
    /\ \E n \in 1..Len(pty_pending) :
          /\ host_stdout' = host_stdout \o SubSeq(pty_pending, 1, n)
          /\ pty_output' = pty_output \o SubSeq(pty_pending, 1, n)
          /\ pty_pending' = SubSeq(pty_pending, n + 1, Len(pty_pending))
    /\ last_activity' = 0
    /\ pc' = "try_wait"
    /\ LoopFrame
    /\ UNCHANGED <<ctrlVars, child, input_rx, start, graceful, termination, should_terminate,
                   force_kill, returned, master_writes, signals, checked_elapsed,
                   backslash_seen>>

\* the read returns bytes and write_all or flush on the host stdout fails:
\* any part of the bytes may have been written by then
ReadStdoutErr ==
    /\ pc = "read"
    /\ pty_pending # <<>>
    /\ \E n \in 1..Len(pty_pending) : \E written \in 0..n :
          /\ host_stdout' = host_stdout \o SubSeq(pty_pending, 1, written)
          /\ pty_pending' = SubSeq(pty_pending, n + 1, Len(pty_pending))
    /\ pc' = "returned_err"
    /\ returned' = "stdout_error"
    /\ LoopFrame
    /\ UNCHANGED <<ctrlVars, child, pty_output, input_rx, last_activity, start, graceful,
                   termination, should_terminate, force_kill, master_writes, signals,
                   checked_elapsed, backslash_seen>>

\* the read returns Ok(0): the child is gone and nothing is pending. The loop
\* breaks; run_interactive stores should_terminate before the final wait
ReadEof ==
    /\ pc = "read"
    /\ pty_pending = <<>>
    /\ child # "running"
    /\ should_terminate' = (should_terminate \/ InteractiveMode)
    /\ pc' = "final_wait"
    /\ LoopFrame
    /\ UNCHANGED <<ctrlVars, child, pty_pending, pty_output, host_stdout, input_rx,
                   last_activity, start, graceful, termination, force_kill, returned,
                   master_writes, signals, checked_elapsed, backslash_seen>>

\* the read returns WouldBlock (a non-blocking master with nothing pending):
\* sleep 10 ms and loop
ReadWouldBlock ==
    /\ pc = "read"
    /\ pty_pending = <<>>
    /\ child = "running"
    /\ ~blocking_read
    /\ pc' = "try_wait"
    /\ LoopFrame
    /\ UNCHANGED <<ctrlVars, child, pty_pending, pty_output, host_stdout, input_rx,
                   last_activity, start, graceful, termination, should_terminate, force_kill,
                   returned, master_writes, signals, checked_elapsed, backslash_seen>>

\* the read returns Interrupted: loop
ReadInterrupted ==
    /\ pc = "read"
    /\ pc' = "try_wait"
    /\ LoopFrame
    /\ UNCHANGED <<ctrlVars, child, pty_pending, pty_output, host_stdout, input_rx,
                   last_activity, start, graceful, termination, should_terminate, force_kill,
                   returned, master_writes, signals, checked_elapsed, backslash_seen>>

\* the read returns any other error: break
ReadErr ==
    /\ pc = "read"
    /\ should_terminate' = (should_terminate \/ InteractiveMode)
    /\ pc' = "final_wait"
    /\ LoopFrame
    /\ UNCHANGED <<ctrlVars, child, pty_pending, pty_output, host_stdout, input_rx,
                   last_activity, start, graceful, termination, force_kill, returned,
                   master_writes, signals, checked_elapsed, backslash_seen>>

\* ---- terminate_child ----

\* the PID lookup, then SIGTERM (graceful) or SIGKILL (not graceful)
TerminateChild ==
    /\ pc = "terminate_child"
    /\ IF ~has_pid
       THEN /\ pc' = "final_wait"
            /\ UNCHANGED <<signals, child, start>>
       ELSE IF graceful
            THEN /\ Kill("SIGTERM")
                 /\ start' = 0
                 /\ pc' = "term_poll"
            ELSE /\ Kill("SIGKILL")
                 /\ pc' = "final_wait"
                 /\ UNCHANGED start
    /\ LoopFrame
    /\ UNCHANGED <<ctrlVars, pty_pending, pty_output, host_stdout, input_rx, last_activity,
                   graceful, termination, should_terminate, force_kill, returned,
                   master_writes, checked_elapsed, backslash_seen>>

\* one turn of the grace loop: try_wait returns Ok; return if the child has
\* exited, else sleep 100 ms
TermPoll ==
    /\ pc = "term_poll"
    /\ ~GraceElapsed(start)
    /\ IF child # "running"
       THEN child' = "reaped" /\ pc' = "final_wait"
       ELSE child' = child /\ pc' = "term_sleep"
    /\ LoopFrame
    /\ UNCHANGED <<ctrlVars, pty_pending, pty_output, host_stdout, input_rx, last_activity,
                   start, graceful, termination, should_terminate, force_kill, returned,
                   master_writes, signals, checked_elapsed, backslash_seen>>

\* one turn of the grace loop: try_wait returns Err, which `?` returns
TermPollErr ==
    /\ pc = "term_poll"
    /\ ~GraceElapsed(start)
    /\ pc' = "returned_err"
    /\ returned' = "try_wait_error"
    /\ LoopFrame
    /\ UNCHANGED <<ctrlVars, child, pty_pending, pty_output, host_stdout, input_rx,
                   last_activity, start, graceful, termination, should_terminate, force_kill,
                   master_writes, signals, checked_elapsed, backslash_seen>>

\* the grace loop ended without a return: SIGKILL
TermKill ==
    /\ pc = "term_poll"
    /\ GraceElapsed(start)
    /\ Kill("SIGKILL")
    /\ pc' = "final_wait"
    /\ LoopFrame
    /\ UNCHANGED <<ctrlVars, pty_pending, pty_output, host_stdout, input_rx, last_activity,
                   start, graceful, termination, should_terminate, force_kill, returned,
                   master_writes, checked_elapsed, backslash_seen>>

\* ---- after the loop ----

\* a final child.try_wait() in the place of child.wait(): it returns at once,
\* the child still running or not
FinalTryWait ==
    /\ pc = "final_wait"
    /\ child' = IF child = "running" THEN child ELSE "reaped"
    /\ returned' = termination
    /\ pc' = "returned_ok"
    /\ LoopFrame
    /\ UNCHANGED <<ctrlVars, pty_pending, pty_output, host_stdout, input_rx, last_activity,
                   start, graceful, termination, should_terminate, force_kill, master_writes,
                   signals, checked_elapsed, backslash_seen>>

\* child.wait() returns Ok once the child has exited; the result is returned
FinalWait ==
    /\ pc = "final_wait"
    /\ child # "running"
    /\ child' = "reaped"
    /\ returned' = termination
    /\ pc' = "returned_ok"
    /\ LoopFrame
    /\ UNCHANGED <<ctrlVars, pty_pending, pty_output, host_stdout, input_rx, last_activity,
                   start, graceful, termination, should_terminate, force_kill, master_writes,
                   signals, checked_elapsed, backslash_seen>>

\* child.wait() returns Err
FinalWaitErr ==
    /\ pc = "final_wait"
    /\ pc' = "returned_err"
    /\ returned' = "wait_error"
    /\ LoopFrame
    /\ UNCHANGED <<ctrlVars, child, pty_pending, pty_output, host_stdout, input_rx,
                   last_activity, start, graceful, termination, should_terminate, force_kill,
                   master_writes, signals, checked_elapsed, backslash_seen>>

\* the steps the executor takes by itself when the calls it makes succeed
MainStep ==
    \/ TryWait \/ DrainData \/ DrainEnd \/ CheckTimeout \/ CheckForceKill
    \/ InputCtrlC \/ InputCtrlBackslash \/ InputData \/ InputDone
    \/ ReadData \/ ReadEof \/ ReadWouldBlock
    \/ TerminateChild \/ TermPoll \/ TermKill \/ FinalWait

\* failures of the calls the executor makes
FaultStep ==
    \/ TryWaitErr \/ DrainStdoutErr \/ DrainReadErr \/ ReadStdoutErr
    \/ ReadInterrupted \/ ReadErr \/ TermPollErr \/ FinalWaitErr

EnvStep == ChildOutput \/ ChildExit \/ StdinReader \/ Tick

PtyNext == MainStep \/ FaultStep \/ EnvStep

SpecPty == PtyInit /\ [][PtyNext]_vars

\* the executor thread keeps running and time keeps passing
FairSpecPty == PtyInit /\ [][PtyNext]_vars /\ WF_vars(MainStep) /\ WF_vars(Tick)

\* ------------------------------------------------ claims on the executor

InMainLoop == pc \in {"try_wait", "check_timeout", "check_force_kill", "process_input", "read"}

\* C7 (as claimed): with idle_timeout_secs > 0, once the child has been alive
\* and silent, with no input processed, for more than the timeout, the
\* executor eventually returns a result with termination = IdleTimeout
\* (unless the child exits, output or input arrives, the user terminates the
\* run, or a call of the executor fails first).
C7_IdleTimeoutFires ==
    (/\ InMainLoop
     /\ has_pid
     /\ child = "running"
     /\ termination = "Natural"
     /\ IdleExpired(idle_timeout_secs, last_activity))
        ~> \/ pc = "returned_ok" /\ returned = "IdleTimeout"
           \/ pc = "returned_err"
           \/ exited_itself
           \/ termination \in {"UserInterrupt", "ForceKill"}
           \/ pc = "final_wait" /\ termination = "Natural"
           \/ InMainLoop /\ ~IdleExpired(idle_timeout_secs, last_activity)

\* the same property of a master whose reads return WouldBlock
C7_IdleTimeoutFiresNonBlocking ==
    (/\ InMainLoop
     /\ ~blocking_read
     /\ has_pid
     /\ child = "running"
     /\ termination = "Natural"
     /\ IdleExpired(idle_timeout_secs, last_activity))
        ~> \/ pc = "returned_ok" /\ returned = "IdleTimeout"
           \/ pc = "returned_err"
           \/ exited_itself
           \/ termination \in {"UserInterrupt", "ForceKill"}
           \/ pc = "final_wait" /\ termination = "Natural"
           \/ InMainLoop /\ ~IdleExpired(idle_timeout_secs, last_activity)

\* the number of entries of seq that satisfy Test
Count(seq, Test(_)) == Cardinality({ i \in 1..Len(seq) : Test(seq[i]) })

IsCtrlCByte(b) == b = CtrlCByte
IsForward(p) == p[2] = "ForwardAndStartWindow"

\* C5: in interactive mode a Ctrl+C processed within the window of a
\* forwarded one writes nothing to the master (one byte 3 per forwarded
\* press, none for the terminating one), sets termination = UserInterrupt,
\* starts the graceful termination (SIGTERM first) and ends event processing;
\* the result then returned carries termination = UserInterrupt.
C5_DoubleCtrlCTerminates ==
    /\ Count(master_writes, IsCtrlCByte) = Count(presses, IsForward)
    /\ \A k \in 1..(Len(presses) - 1) : presses[k][2] = "ForwardAndStartWindow"
    /\ (mode = "interactive" /\ presses # <<>> /\ presses[Len(presses)][2] = "Terminate")
          => /\ Len(presses) >= 2
             /\ presses[Len(presses)][1] # None /\ presses[Len(presses)][1] < window
             /\ termination = "UserInterrupt"
             /\ should_terminate
             /\ graceful
             /\ pc \in {"terminate_child", "term_poll", "term_sleep", "final_wait",
                        "returned_ok", "returned_err"}
             /\ (has_pid /\ pc # "terminate_child")
                   => signals # <<>> /\ signals[1].sig = "SIGTERM"
             /\ pc = "returned_ok" => returned = "UserInterrupt"

C5_Witness ==
    /\ pc = "returned_ok"
    /\ returned = "UserInterrupt"
    /\ presses = << <<None, "ForwardAndStartWindow">>, <<0, "Terminate">> >>
    /\ master_writes = <<CtrlCByte>>
    /\ signals # <<>>
    /\ signals[1].sig = "SIGTERM"
    /\ signals[1].alive

\* C6 (as claimed): once a Ctrl+\ event has been processed while the child
\* was running (and the child does not exit by itself), the child is sent
\* SIGKILL and nothing else, and the invocation returns termination =
\* ForceKill.
C6_CtrlBackslashForceKills ==
    (pc = "returned_ok" /\ backslash_seen /\ ~exited_itself)
        => /\ returned = "ForceKill"
           /\ Len(signals) = 1
           /\ signals[1].sig = "SIGKILL"

\* C8: with idle_timeout_secs = 0 neither loop sets termination =
\* IdleTimeout nor signals the child for idleness: observe mode sends no
\* signal at all, interactive mode only for a user interrupt or force kill.
C8_ZeroDisablesIdleTimeout ==
    idle_timeout_secs = 0 /\ mode # "none"
        => /\ termination # "IdleTimeout"
           /\ returned # "IdleTimeout"
           /\ mode = "observe" => signals = <<>>
           /\ signals # <<>> => termination \in {"UserInterrupt", "ForceKill"}

\* the timeout check has run after the longest silence the clock counts
C8_Witness ==
    /\ idle_timeout_secs = 0
    /\ checked_elapsed = IdleCap
    /\ pc \in {"read", "check_force_kill"}
    /\ child = "running"
    /\ pty_output = <<>>
    /\ termination = "Natural"

\* C9 (as claimed): every input event the main loop takes from the channel
\* resets last_activity.
C9_EveryInputEventResetsActivity ==
    [][(pc = "process_input" /\ input_rx # <<>> /\ input_rx' = Tail(input_rx))
            => last_activity' = 0]_vars

C11_OkOnlyAfterReaping ==
    pc = "returned_ok"
        => /\ child = "reaped"
           /\ returned = termination
           /\ returned \in {"Natural", "IdleTimeout", "UserInterrupt", "ForceKill"}

\* a force kill of a running child, then the wait, then the result
C11_Witness ==
    /\ pc = "returned_ok"
    /\ returned = "ForceKill"
    /\ Len(signals) = 1
    /\ signals[1].sig = "SIGKILL"
    /\ signals[1].alive
    /\ child = "reaped"

\* C12 (as claimed): on every path out of run_interactive, the error returns
\* included, should_terminate is true when the function returns.
C12_ShouldTerminateOnEveryReturn ==
    (mode = "interactive" /\ pc \in {"returned_ok", "returned_err"})
        => should_terminate

\* C13 (as claimed): a read error on the PTY master never makes run_observe
\* or run_interactive return Err.
C13_ReadErrorNeverReturned ==
    pc = "returned_err" => returned # "read_error"

\* ------------------------------------------------ backpressure evidence
\* Payloads are sequences of one-character strings, as the parser's text is.

TestsTok == <<"t", "e", "s", "t", "s", ":">>

LintTok == <<"l", "i", "n", "t", ":">>

TypecheckTok == <<"t", "y", "p", "e", "c", "h", "e", "c", "k", ":">>

PassWord == <<" ", "p", "a", "s", "s">>

FailWord == <<" ", "f", "a", "i", "l">>

NewLine == <<"\n">>

\* Option<BackpressureEvidence>: the empty set is None, {e} is Some(e)
NoEvidence == {}

\* BackpressureEvidence::all_passed with the typecheck flag left out
AllPassedIgnoringTypecheck(e) == e.tests_passed /\ e.lint_passed

\* BackpressureEvidence::all_passed
all_passed(e) == e.tests_passed /\ e.lint_passed /\ e.typecheck_passed

\* the evidence with a check counted as passed as soon as it is mentioned
ParseEvidenceMentionIsPass(p) ==
    IF \/ Contains(p, TestsTok)
       \/ Contains(p, LintTok)
       \/ Contains(p, TypecheckTok)
    THEN {[tests_passed     |-> Contains(p, TestsTok),
           lint_passed      |-> Contains(p, LintTok \o PassWord),
           typecheck_passed |-> Contains(p, TypecheckTok \o PassWord)]}
    ELSE NoEvidence

\* the evidence returned for a payload that mentions no check, too
ParseEvidenceAlwaysSome(p) ==
    {[tests_passed     |-> Contains(p, TestsTok \o PassWord),
      lint_passed      |-> Contains(p, LintTok \o PassWord),
      typecheck_passed |-> Contains(p, TypecheckTok \o PassWord)]}

\* EventParser::parse_backpressure_evidence
parse_backpressure_evidence(payload) ==
    LET tests_passed     == Contains(payload, TestsTok \o PassWord)
        lint_passed      == Contains(payload, LintTok \o PassWord)
        typecheck_passed == Contains(payload, TypecheckTok \o PassWord)
    IN  IF \/ Contains(payload, TestsTok)
           \/ Contains(payload, LintTok)
           \/ Contains(payload, TypecheckTok)
        THEN {[tests_passed     |-> tests_passed,
               lint_passed      |-> lint_passed,
               typecheck_passed |-> typecheck_passed]}
        ELSE NoEvidence

\* ------------------------------------------------------------ dispatcher
\* The dispatch loop: dequeue an event, run the executor, parse the events
\* of the output, gate each parsed event, continue or stop.

MaxEvents == 3

\* the payloads an agent attaches to the events it emits
AllPassPayload ==
    TestsTok \o PassWord \o NewLine \o LintTok \o PassWord
        \o NewLine \o TypecheckTok \o PassWord

LintFailPayload ==
    TestsTok \o PassWord \o NewLine \o LintTok \o FailWord
        \o NewLine \o TypecheckTok \o PassWord

MissingTypecheckPayload ==
    TestsTok \o PassWord \o NewLine \o LintTok \o PassWord

AllFailPayload ==
    TestsTok \o FailWord \o NewLine \o LintTok \o FailWord
        \o NewLine \o TypecheckTok \o FailWord

ProsePayload == <<"d", "o", "n", "e">>

Payloads ==
    {AllPassPayload, LintFailPayload, MissingTypecheckPayload,
     AllFailPayload, ProsePayload}

AgentTopics == {"build.done", "build.task"}

AgentEvents == [topic : AgentTopics, payload : Payloads, synthesised : {FALSE}]

\* the names of the checks the evidence does not show as passed
MissingChecks(ev) ==
    LET NotPassed(c) ==
            \/ ev = NoEvidence
            \/ \E e \in ev :
                  \/ (c = "tests" /\ ~e.tests_passed)
                  \/ (c = "lint" /\ ~e.lint_passed)
                  \/ (c = "typecheck" /\ ~e.typecheck_passed)
    IN  SelectSeq(<<"tests", "lint", "typecheck">>, NotPassed)

\* the synthesised build.blocked event, its payload naming the missing checks
BlockedEvent(ev) ==
    [topic |-> "build.blocked", payload |-> MissingChecks(ev),
     synthesised |-> TRUE]

\* the evidence shows all three checks passed
EvidenceAccepted(ev) == ev # NoEvidence /\ \A e \in ev : all_passed(e)

StartEvent ==
    [topic |-> "task.start", payload |-> ProsePayload, synthesised |-> TRUE]

DispatchInit ==
    /\ ParserIdle
    /\ CtrlIdle
    /\ PtyIdle
    /\ PureIdle
    /\ TuiIdle
    /\ dpc = "idle"
    /\ queue = <<StartEvent>>
    /\ journal = <<StartEvent>>
    /\ parsed = <<>>
    /\ produced = 0

DispFrame == UNCHANGED <<parserVars, ctrlVars, ptyVars, pureVars, tuiVars>>

\* the head of the queue is taken and the executor is started for it
Dequeue ==
    /\ dpc = "idle"
    /\ queue # <<>>
    /\ queue' = Tail(queue)
    /\ dpc' = "exec"
    /\ UNCHANGED <<journal, parsed, produced>>
    /\ DispFrame

\* the queue is empty: the run ends
Starved ==
    /\ dpc = "idle"
    /\ queue = <<>>
    /\ dpc' = "terminated"
    /\ UNCHANGED <<queue, journal, parsed, produced>>
    /\ DispFrame

\* the executor returns and the events of its output are parsed
Execute ==
    /\ dpc = "exec"
    /\ \E n \in 0..2 :
          /\ produced + n <= MaxEvents
          /\ \E evs \in [1..n -> AgentEvents] :
                /\ parsed' = evs
                /\ produced' = produced + n
    /\ dpc' = "gate"
    /\ UNCHANGED <<queue, journal>>
    /\ DispFrame

\* a parsed event that is not build.done is journalled and enqueued
GateOther ==
    /\ dpc = "gate"
    /\ parsed # <<>>
    /\ Head(parsed).topic # "build.done"
    /\ journal' = Append(journal, Head(parsed))
    /\ queue' = Append(queue, Head(parsed))
    /\ parsed' = Tail(parsed)
    /\ UNCHANGED <<dpc, produced>>
    /\ DispFrame

\* a parsed build.done is accepted on full evidence, else replaced by a
\* synthesised build.blocked
GateBuildDone ==
    /\ dpc = "gate"
    /\ parsed # <<>>
    /\ Head(parsed).topic = "build.done"
    /\ LET ev == parse_backpressure_evidence(Head(parsed).payload)
       IN  IF EvidenceAccepted(ev)
           THEN /\ journal' = Append(journal, Head(parsed))
                /\ queue' = Append(queue, Head(parsed))
           ELSE /\ journal' = Append(journal, BlockedEvent(ev))
                /\ queue' = Append(queue, BlockedEvent(ev))
    /\ parsed' = Tail(parsed)
    /\ UNCHANGED <<dpc, produced>>
    /\ DispFrame

\* all parsed events are gated: the next iteration may start
EndIteration ==
    /\ dpc = "gate"
    /\ parsed = <<>>
    /\ dpc' = "idle"
    /\ UNCHANGED <<queue, journal, parsed, produced>>
    /\ DispFrame

DispatchNext ==
    \/ Dequeue
    \/ Starved
    \/ Execute
    \/ GateOther
    \/ GateBuildDone
    \/ EndIteration

SpecDispatch == DispatchInit /\ [][DispatchNext]_vars

\* ---------------------------------------------------- dispatcher claims

\* the payload attests that all three checks passed
Attests(payload) ==
    /\ Contains(payload, TestsTok \o PassWord)
    /\ Contains(payload, LintTok \o PassWord)
    /\ Contains(payload, TypecheckTok \o PassWord)

\* C3: whenever a parsed build.done event is gated, it is journalled and
\* enqueued if its payload contains "tests: pass", "lint: pass" and
\* "typecheck: pass"; otherwise it is not enqueued and exactly one
\* synthesised build.blocked event is enqueued in its place.
C3_BackpressureGating ==
    [][(dpc = "gate" /\ parsed # <<>> /\ parsed' = Tail(parsed)
            /\ Head(parsed).topic = "build.done")
        => IF Attests(Head(parsed).payload)
           THEN /\ queue' = Append(queue, Head(parsed))
                /\ journal' = Append(journal, Head(parsed))
           ELSE /\ Len(queue') = Len(queue) + 1
                /\ SubSeq(queue', 1, Len(queue)) = queue
                /\ queue'[Len(queue')].topic = "build.blocked"
                /\ queue'[Len(queue')].synthesised
                /\ Len(journal') = Len(journal) + 1
                /\ journal'[Len(journal')].topic # "build.done"]_vars

\* one build.done with full evidence was accepted, one with a failing lint
\* check was replaced, and no build.done without full evidence got through
C3_Witness ==
    /\ \E i \in 1..Len(journal) :
          journal[i].topic = "build.done" /\ journal[i].payload = AllPassPayload
    /\ \E i \in 1..Len(journal) :
          /\ journal[i].topic = "build.blocked"
          /\ journal[i].payload = <<"lint">>
    /\ \A i \in 1..Len(journal) :
          journal[i].topic = "build.done" => journal[i].payload = AllPassPayload
    /\ Len(journal) = MaxEvents + 1
    /\ produced = MaxEvents

\* ------------------------------------------------------ EventParser::parse
\* The parser is the one EventParser::new() builds: it attaches no source.

TopicAttr == <<"t", "o", "p", "i", "c">>

TargetAttr == <<"t", "a", "r", "g", "e", "t">>

\* the `="` that format!("{attr}=\"") puts after the attribute name
AttrOpen == <<"=", "\"">>

Quote == <<"\"">>

TagEnd == <<">">>

\* the characters str::trim removes, as far as the inputs use them
Whitespace == {" ", "\n", "\t", "\r"}

\* Option<String>: the empty set is None, {v} is Some(v)
NoValue == {}

RECURSIVE TrimStart(_)
TrimStart(s) ==
    IF s # <<>> /\ Head(s) \in Whitespace THEN TrimStart(Tail(s)) ELSE s

RECURSIVE TrimEnd(_)
TrimEnd(s) ==
    IF s # <<>> /\ s[Len(s)] \in Whitespace THEN TrimEnd(SliceTo(s, Len(s) - 1)) ELSE s

\* str::trim
Trim(s) == TrimEnd(TrimStart(s))

\* extract_attr with the value cut one character too late
ExtractAttrKeepingQuote(tag, attr) ==
    LET pattern == attr \o AttrOpen
        attr_start == Find(tag, pattern)
    IN  IF attr_start = None THEN NoValue
        ELSE LET rest == SliceFrom(tag, attr_start + Len(pattern))
                 end == Find(rest, Quote)
             IN  IF end = None THEN NoValue ELSE {SliceTo(rest, end + 1)}

\* EventParser::extract_attr (attr_start is its `start`)
extract_attr(tag, attr) ==
    LET pattern == attr \o AttrOpen
        attr_start == Find(tag, pattern)
    IN  IF attr_start = None THEN NoValue
        ELSE LET value_start == attr_start + Len(pattern)
                 rest == SliceFrom(tag, value_start)
                 end == Find(rest, Quote)
             IN  IF end = None THEN NoValue ELSE {SliceTo(rest, end)}

\* the event put in front of the events found so far
PushFront(evs, event) == <<event>> \o evs

\* events.push(event)
Push(evs, event) == Append(evs, event)

\* EventParser::parse: the while loop, events and remaining
RECURSIVE ParseLoop(_, _)
ParseLoop(evs, remaining) ==
    LET start_idx == Find(remaining, EventOpen)
    IN  IF start_idx = None THEN evs
        ELSE
        LET after_start == SliceFrom(remaining, start_idx)
            tag_end == Find(after_start, TagEnd)
        IN  IF tag_end = None
            THEN ParseLoop(evs, SliceFrom(remaining, start_idx + 7))
            ELSE
            LET opening_tag == SliceTo(after_start, tag_end + 1)
                topic == extract_attr(opening_tag, TopicAttr)
                target == extract_attr(opening_tag, TargetAttr)
            IN  IF topic = NoValue
                THEN ParseLoop(evs, SliceFrom(remaining, start_idx + tag_end + 1))
                ELSE
                LET content_start == SliceFrom(after_start, tag_end + 1)
                    close_idx == Find(content_start, EventClose)
                IN  IF close_idx = None
                    THEN ParseLoop(evs, SliceFrom(remaining, start_idx + tag_end + 1))
                    ELSE
                    LET payload == Trim(SliceTo(content_start, close_idx))
                        event == [topic |-> CHOOSE t \in topic : TRUE,
                                  payload |-> payload,
                                  target |-> target]
                        total_consumed == start_idx + tag_end + 1 + close_idx + 8
                    IN  ParseLoop(Push(evs, event), SliceFrom(remaining, total_consumed))

parse(o) == ParseLoop(<<>>, o)

\* ------------------------------------------------- parse: specification

MaxPieces == 3

\* an attribute as the wire form writes it: NAME="VALUE"
AttrText(name, value) == name \o AttrOpen \o value \o Quote

TargetText(target) ==
    IF target = NoValue THEN <<>>
    ELSE <<" ">> \o AttrText(TargetAttr, CHOOSE h \in target : TRUE)

\* the text of a piece: free text, an event in the wire form
\* <event topic="T" [target="H"]>P</event>, or a malformed fragment
Wire(piece) ==
    CASE piece.kind = "text" -> piece.payload
      [] piece.kind = "block" ->
            EventOpen \o AttrText(TopicAttr, piece.topic) \o TargetText(piece.target)
                \o TagEnd \o piece.payload \o EventClose
      [] piece.kind = "no_gt" ->
            EventOpen \o AttrText(TopicAttr, piece.topic) \o <<" ">>
      [] piece.kind = "no_close" ->
            EventOpen \o AttrText(TopicAttr, piece.topic) \o TagEnd \o piece.payload
      [] piece.kind = "no_topic" ->
            EventOpen \o <<"x">> \o TagEnd \o piece.payload \o EventClose

RECURSIVE Serialise(_)
Serialise(ps) == IF ps = <<>> THEN <<>> ELSE Wire(Head(ps)) \o Serialise(Tail(ps))

Piece(kind, topic, target, payload) ==
    [kind |-> kind, topic |-> topic, target |-> target, payload |-> payload]

\* event blocks: plain ones, one with a padded payload, one whose topic
\* holds a `>`, one whose topic ends in `target=`
PlainBlocks ==
    { Piece("block", <<"a">>, NoValue, <<"x">>),
      Piece("block", <<"b">>, {<<"h">>}, <<"y", "\n", "z">>) }

OddBlocks ==
    { Piece("block", <<"a">>, NoValue, <<" ", "x">>),
      Piece("block", <<"a", ">">>, NoValue, <<"x">>),
      Piece("block", TargetAttr \o <<"=">>, {<<"h">>}, <<"x">>) }

TextPieces ==
    { Piece("text", <<>>, NoValue, <<"t">>),
      Piece("text", <<>>, NoValue, EventClose) }

Fragments ==
    { Piece("no_gt", <<"c">>, NoValue, <<>>),
      Piece("no_close", <<"c">>, NoValue, <<"z">>),
      Piece("no_topic", <<>>, NoValue, <<"z">>) }

PiecePool == PlainBlocks \cup OddBlocks \cup TextPieces \cup Fragments

PieceSeqs == UNION { [1..n -> PiecePool] : n \in 0..MaxPieces }

ParseInit ==
    /\ CtrlIdle
    /\ PtyIdle
    /\ DispIdle
    /\ PureIdle
    /\ TuiIdle
    /\ pieces \in PieceSeqs
    /\ output = Serialise(pieces)
    /\ promise = <<>>
    /\ stripped = <<>>
    /\ found = FALSE
    /\ events = <<>>
    /\ restripped = <<>>
    /\ ppc = "parse_input"

\* one call EventParser::new().parse(output)
Parse ==
    /\ ppc = "parse_input"
    /\ events' = parse(output)
    /\ ppc' = "parsed"
    /\ UNCHANGED <<output, promise, stripped, found, pieces, restripped>>
    /\ UNCHANGED <<ctrlVars, ptyVars, dispVars, pureVars, tuiVars>>

ParseNext == Parse

SpecParse == ParseInit /\ [][ParseNext]_vars

\* ------------------------------------------------------ claims on parse

\* the event a block stands for
EventOf(piece) ==
    [topic |-> piece.topic, payload |-> piece.payload, target |-> piece.target]

\* the blocks among the pieces, in their order
RECURSIVE BlocksOf(_)
BlocksOf(ps) ==
    IF ps = <<>> THEN <<>>
    ELSE IF Head(ps).kind = "block"
         THEN <<Head(ps)>> \o BlocksOf(Tail(ps))
         ELSE BlocksOf(Tail(ps))

AllPieces(Test(_)) == \A i \in 1..Len(pieces) : Test(pieces[i])

IsTextOrBlock(piece) == piece.kind \in {"text", "block"}

IsBlock(piece) == piece.kind = "block"

\* neither `"` nor `>` in the attribute values, and the topic does not end
\* in `target=`
PlainAttributes(piece) ==
    /\ ~Contains(piece.topic, Quote)
    /\ ~Contains(piece.topic, TagEnd)
    /\ \A h \in piece.target : ~Contains(h, Quote) /\ ~Contains(h, TagEnd)
    /\ LET suffix == TargetAttr \o <<"=">>
       IN  \/ Len(piece.topic) < Len(suffix)
           \/ SliceFrom(piece.topic, Len(piece.topic) - Len(suffix)) # suffix

\* no whitespace at either end of the payload
TrimmedPayload(piece) ==
    \/ piece.payload = <<>>
    \/ /\ Head(piece.payload) \notin Whitespace
       /\ piece.payload[Len(piece.payload)] \notin Whitespace

\* C14 (as claimed): for an output that is a sequence of non-nested event
\* blocks separated by text, parse returns exactly one event per block, in
\* the order of the blocks, each with its block's topic.
C14_OneEventPerBlockInOrder ==
    (ppc = "parsed" /\ AllPieces(IsTextOrBlock))
        => /\ Len(events) = Len(BlocksOf(pieces))
           /\ \A i \in 1..Len(events) : events[i].topic = BlocksOf(pieces)[i].topic

\* the same property of the outputs whose topics hold no `>`
C14_OneEventPerBlockWithoutTagEnd ==
    (ppc = "parsed" /\ AllPieces(IsTextOrBlock)
        /\ \A i \in 1..Len(pieces) : ~Contains(pieces[i].topic, TagEnd))
        => /\ Len(events) = Len(BlocksOf(pieces))
           /\ \A i \in 1..Len(events) : events[i].topic = BlocksOf(pieces)[i].topic

\* C15 (as claimed): a malformed fragment produces no event and every plain
\* block of the output, the ones after a fragment included, is returned with
\* its own topic and payload.
C15_FragmentsSkipped ==
    (ppc = "parsed"
        /\ \A i \in 1..Len(pieces) : pieces[i] \in PlainBlocks \cup TextPieces \cup Fragments)
        => /\ Len(events) = Len(BlocksOf(pieces))
           /\ \A i \in 1..Len(events) : events[i] = EventOf(BlocksOf(pieces)[i])

\* C16 (as claimed): parsing the wire form of a list of events whose topics
\* hold no `"` and whose payloads hold no `</event>` returns the same list.
C16_RoundTripAsClaimed ==
    (/\ ppc = "parsed"
     /\ AllPieces(IsBlock)
     /\ \A i \in 1..Len(pieces) :
           /\ ~Contains(pieces[i].topic, Quote)
           /\ ~Contains(pieces[i].payload, EventClose))
        => /\ Len(events) = Len(pieces)
           /\ \A i \in 1..Len(events) : events[i] = EventOf(pieces[i])

\* C16 (amended): parsing the wire form of a list of events returns the same
\* list if the topics and targets hold neither `"` nor `>`, no topic ends in
\* `target=`, and the payloads hold no `</event>` and have no whitespace at
\* either end.
C16_RoundTrip ==
    (/\ ppc = "parsed"
     /\ AllPieces(IsBlock)
     /\ AllPieces(PlainAttributes)
     /\ AllPieces(TrimmedPayload)
     /\ \A i \in 1..Len(pieces) : ~Contains(pieces[i].payload, EventClose))
        => /\ Len(events) = Len(pieces)
           /\ \A i \in 1..Len(events) : events[i] = EventOf(pieces[i])

\* three events, with and without a target, written and parsed back
C16_Witness ==
    /\ ppc = "parsed"
    /\ Len(pieces) = MaxPieces
    /\ AllPieces(IsBlock)
    /\ AllPieces(PlainAttributes)
    /\ AllPieces(TrimmedPayload)
    /\ \E i \in 1..Len(pieces) : pieces[i].target # NoValue
    /\ \E i \in 1..Len(pieces) : pieces[i].target = NoValue
    /\ Len(events) = MaxPieces
    /\ events[1] = EventOf(pieces[1])

\* ------------------------------------- strip_event_tags: specification

MaxStripSyms == 5

\* the pieces the inputs are built from: the two tag literals, the two
\* halves of an opener, and a filler character
StripSyms ==
    { EventOpen, EventClose, <<"<", "e", "v", "e">>, <<"n", "t", " ">>, <<"x">> }

StripInputs == { Concat(q) : q \in SymSeqs(StripSyms, MaxStripSyms) }

StripInit ==
    /\ CtrlIdle
    /\ PtyIdle
    /\ DispIdle
    /\ PureIdle
    /\ TuiIdle
    /\ output \in StripInputs
    /\ promise = <<>>
    /\ stripped = <<>>
    /\ found = FALSE
    /\ pieces = <<>>
    /\ events = <<>>
    /\ restripped = <<>>
    /\ ppc = "strip_input"

\* strip_event_tags(output)
StripOnce ==
    /\ ppc = "strip_input"
    /\ stripped' = strip_event_tags(output)
    /\ ppc' = "stripped"
    /\ UNCHANGED <<output, promise, found, pieces, events, restripped>>
    /\ UNCHANGED <<ctrlVars, ptyVars, dispVars, pureVars, tuiVars>>

\* strip_event_tags applied to its own result
StripAgain ==
    /\ ppc = "stripped"
    /\ restripped' = strip_event_tags(stripped)
    /\ ppc' = "restripped"
    /\ UNCHANGED <<output, promise, stripped, found, pieces, events>>
    /\ UNCHANGED <<ctrlVars, ptyVars, dispVars, pureVars, tuiVars>>

StripNext == StripOnce \/ StripAgain

SpecStrip == StripInit /\ [][StripNext]_vars

\* C17 (as claimed): strip_event_tags(strip_event_tags(O)) =
\* strip_event_tags(O) for every output O.
C17_StripIdempotent == ppc = "restripped" => restripped = stripped

\* ------------------------- parse_backpressure_evidence: specification

MaxEvidenceSyms == 3

\* the pieces the payloads are built from: the three tokens alone and with
\* " pass" behind them, the two verdicts, a letter
EvidenceSyms ==
    { TestsTok, LintTok, TypecheckTok,
      TestsTok \o PassWord, LintTok \o PassWord, TypecheckTok \o PassWord,
      PassWord, FailWord, <<"f">> }

EvidencePayloads == { Concat(q) : q \in SymSeqs(EvidenceSyms, MaxEvidenceSyms) }

EvidenceInit ==
    /\ ParserIdle
    /\ CtrlIdle
    /\ PtyIdle
    /\ DispIdle
    /\ TopicIdle
    /\ RouteIdle
    /\ PromptIdle
    /\ SideIdle
    /\ TuiIdle
    /\ ev_payload \in EvidencePayloads
    /\ evidence = NoEvidence
    /\ passed = FALSE
    /\ epc = "input"

\* one call parse_backpressure_evidence(payload), then all_passed() on Some
ParseEvidence ==
    /\ epc = "input"
    /\ evidence' = parse_backpressure_evidence(ev_payload)
    /\ passed' = \E e \in parse_backpressure_evidence(ev_payload) : all_passed(e)
    /\ epc' = "done"
    /\ UNCHANGED <<ev_payload, topicVars, routeVars, promptVars, sideVars, tuiVars>>
    /\ UNCHANGED <<parserVars, ctrlVars, ptyVars, dispVars>>

EvidenceNext == ParseEvidence

SpecEvidence == EvidenceInit /\ [][EvidenceNext]_vars

\* C18: parse_backpressure_evidence(p) yields evidence with all_passed()
\* true if and only if p contains each of "tests: pass", "lint: pass" and
\* "typecheck: pass".
C18_AllPassedIffThreeTokens ==
    epc = "done" => (passed <=> Attests(ev_payload))

\* all three checks attested, not in the canonical order
C18_Witness ==
    /\ epc = "done"
    /\ passed
    /\ ev_payload = (TypecheckTok \o PassWord) \o (TestsTok \o PassWord) \o (LintTok \o PassWord)

\* C19: parse_backpressure_evidence(p) is None exactly when p contains none
\* of "tests:", "lint:", "typecheck:"; otherwise it is a record whose
\* booleans tell whether "tests: pass", "lint: pass", "typecheck: pass"
\* occur in p.
C19_NoneIffNoToken ==
    epc = "done"
        => /\ evidence = NoEvidence
                <=> /\ ~Contains(ev_payload, TestsTok)
                    /\ ~Contains(ev_payload, LintTok)
                    /\ ~Contains(ev_payload, TypecheckTok)
           /\ Cardinality(evidence) <= 1
           /\ \A e \in evidence :
                 /\ e.tests_passed <=> Contains(ev_payload, TestsTok \o PassWord)
                 /\ e.lint_passed <=> Contains(ev_payload, LintTok \o PassWord)
                 /\ e.typecheck_passed <=> Contains(ev_payload, TypecheckTok \o PassWord)

\* a payload that mentions one check only: evidence with the other two false
C19_Witness ==
    /\ epc = "done"
    /\ ev_payload = LintTok \o PassWord
    /\ evidence = {[tests_passed |-> FALSE, lint_passed |-> TRUE, typecheck_passed |-> FALSE]}

\* ------------------------------------------------------- Topic::matches

Dot == <<".">>

Star == <<"*">>

\* str::split('.'): the segments between the dots, at least one
RECURSIVE Split(_)
Split(s) ==
    LET i == Find(s, Dot)
    IN  IF i = None THEN <<s>> ELSE <<SliceTo(s, i)>> \o Split(SliceFrom(s, i + 1))

\* matches without the comparison of the segment counts: zip stops at the
\* shorter list
MatchesUpToShorter(pattern, topic) ==
    LET pattern_parts == Split(pattern)
        target_parts == Split(topic)
        n == IF Len(pattern_parts) < Len(target_parts)
             THEN Len(pattern_parts) ELSE Len(target_parts)
    IN  \/ pattern = Star
        \/ pattern = topic
        \/ \A i \in 1..n : pattern_parts[i] = Star \/ pattern_parts[i] = target_parts[i]

\* matches with every segment that holds a `*` taken as a wildcard
MatchesStarInside(pattern, topic) ==
    LET pattern_parts == Split(pattern)
        target_parts == Split(topic)
    IN  IF pattern = Star THEN TRUE
        ELSE IF pattern = topic THEN TRUE
        ELSE IF Len(pattern_parts) # Len(target_parts) THEN FALSE
        ELSE \A i \in 1..Len(pattern_parts) :
                Contains(pattern_parts[i], Star) \/ pattern_parts[i] = target_parts[i]

\* Topic::matches
matches(pattern, topic) ==
    LET pattern_parts == Split(pattern)
        target_parts == Split(topic)
    IN  IF pattern = Star THEN TRUE
        ELSE IF pattern = topic THEN TRUE
        ELSE IF Len(pattern_parts) # Len(target_parts) THEN FALSE
        ELSE \A i \in 1..Len(pattern_parts) :
                pattern_parts[i] = Star \/ pattern_parts[i] = target_parts[i]

MaxTopicLen == 3

TopicChars == {"a", "b", "*", "."}

Topics == UNION { [1..n -> TopicChars] : n \in 0..MaxTopicLen }

TopicInit ==
    /\ ParserIdle
    /\ CtrlIdle
    /\ PtyIdle
    /\ DispIdle
    /\ EvidIdle
    /\ RouteIdle
    /\ PromptIdle
    /\ SideIdle
    /\ TuiIdle
    /\ topic_self \in Topics
    /\ topic_arg \in Topics
    /\ matched = FALSE
    /\ tpc = "input"

\* one call topic_self.matches(&topic_arg)
Matches ==
    /\ tpc = "input"
    /\ matched' = matches(topic_self, topic_arg)
    /\ tpc' = "done"
    /\ UNCHANGED <<topic_self, topic_arg, evidVars, routeVars, promptVars, sideVars, tuiVars>>
    /\ UNCHANGED <<parserVars, ctrlVars, ptyVars, dispVars>>

TopicNext == Matches

SpecTopic == TopicInit /\ [][TopicNext]_vars

\* the number of dot-separated segments: one more than the number of dots
SegmentCount(t) == 1 + Cardinality({ i \in 1..Len(t) : t[i] = "." })

\* C20: Topic("*").matches(t) is true for every t, and p.matches(t) implies
\* that p is the lone "*" or that p and t have the same number of
\* dot-separated segments.
C20_MatchesSegmentCount ==
    tpc = "done"
        => /\ topic_self = Star => matched
           /\ matched => \/ topic_self = Star
                         \/ SegmentCount(topic_self) = SegmentCount(topic_arg)

\* a pattern with a wildcard segment matches a topic of two segments
C20_Witness ==
    /\ tpc = "done"
    /\ matched
    /\ topic_self = <<"a", ".", "*">>
    /\ topic_arg = <<"a", ".", "b">>

\* the positions of the dots of t
DotsOf(t) == { i \in 1..Len(t) : t[i] = "." }

\* the position of the k-th dot of t
NthDot(t, k) == CHOOSE i \in DotsOf(t) : Cardinality({ j \in DotsOf(t) : j < i }) = k - 1

\* the k-th dot-separated segment of t, read off the positions of its dots
Segment(t, k) ==
    LET first == IF k = 1 THEN 1 ELSE NthDot(t, k - 1) + 1
        last == IF k = SegmentCount(t) THEN Len(t) ELSE NthDot(t, k) - 1
    IN  SubSeq(t, first, last)

\* the reference rule of topic matching
MatchRule(p, t) ==
    \/ p = Star
    \/ p = t
    \/ /\ SegmentCount(p) = SegmentCount(t)
       /\ \A k \in 1..SegmentCount(p) : Segment(p, k) = Star \/ Segment(p, k) = Segment(t, k)

\* C21: Topic::matches returns true iff p is "*", or p equals t, or p and t
\* have the same segment count and every segment of p is exactly "*" or
\* equal to the corresponding segment of t; a pattern with no "*" segment
\* matches only the identical topic.
C21_MatchesIsReferenceRule ==
    tpc = "done"
        => /\ matched \in BOOLEAN
           /\ matched <=> MatchRule(topic_self, topic_arg)
           /\ (matched /\ \A k \in 1..SegmentCount(topic_self) : Segment(topic_self, k) # Star)
                 => topic_self = topic_arg

\* a concrete two-segment pattern matches the identical topic
C21_Witness ==
    /\ tpc = "done"
    /\ matched
    /\ topic_self = <<"a", ".", "b">>
    /\ topic_arg = topic_self

\* ------------------------------------------------------------- routing
\* The resolution of one dequeued event to the hat of the iteration.

\* Topic::is_global_wildcard with every pattern taken as specific
IsGlobalWildcardNever(t) == FALSE

\* Topic::is_global_wildcard
is_global_wildcard(t) == t = Star

\* HatlessRalph::should_handle
should_handle(topic) == TRUE

\* the value of `chosen` that stands for hatless Ralph
Ralph == 0

\* the registered hats with a specific subscription matching the topic
SpecificSubscribers(reg, topic) ==
    { i \in 1..Len(reg) :
        \E s \in reg[i] : ~is_global_wildcard(s) /\ matches(s, topic) }

\* the registered hats subscribed to the global wildcard
WildcardSubscribers(reg) ==
    { i \in 1..Len(reg) : \E s \in reg[i] : is_global_wildcard(s) }

\* the first position of a non-empty set of positions
First(is) == CHOOSE i \in is : \A j \in is : i <= j

\* the hat chosen for an event: first specific subscriber, else first
\* global-wildcard subscriber, else hatless Ralph
Resolve(reg, topic) ==
    IF SpecificSubscribers(reg, topic) # {}
    THEN {First(SpecificSubscribers(reg, topic))}
    ELSE IF WildcardSubscribers(reg) # {}
    THEN {First(WildcardSubscribers(reg))}
    ELSE IF should_handle(topic) THEN {Ralph} ELSE {}

MaxHats == 2

SubscriptionPool ==
    {Star, <<"a", ".", "b">>, <<"a", ".", "*">>, <<"b">>}

EventTopics == {<<"a", ".", "b">>, <<"a", ".", "c">>, <<"b">>, <<"c">>}

Registries ==
    UNION { [1..n -> SUBSET SubscriptionPool \ {{}}] : n \in 0..MaxHats }

RouteInit ==
    /\ ParserIdle
    /\ CtrlIdle
    /\ PtyIdle
    /\ DispIdle
    /\ EvidIdle
    /\ TopicIdle
    /\ PromptIdle
    /\ SideIdle
    /\ TuiIdle
    /\ registry \in Registries
    /\ route_topic \in EventTopics
    /\ chosen = Ralph
    /\ rpc = "input"

\* the event is resolved to a hat
Route ==
    /\ rpc = "input"
    /\ chosen' \in Resolve(registry, route_topic)
    /\ rpc' = "done"
    /\ UNCHANGED <<registry, route_topic, evidVars, topicVars, promptVars, sideVars, tuiVars>>
    /\ UNCHANGED <<parserVars, ctrlVars, ptyVars, dispVars>>

RouteNext == Route

SpecRoute == RouteInit /\ [][RouteNext]_vars

\* a hat has a subscription other than `*` that matches the topic
HasSpecificMatch(hat, topic) ==
    \E s \in hat : s # Star /\ MatchRule(s, topic)

\* C22: the hat chosen for a dequeued event is the first registered hat
\* with a specific (non-global-wildcard) matching subscription if one
\* exists; otherwise the first hat subscribed to `*`; otherwise hatless
\* Ralph.  A `*` subscriber is never chosen when a specific subscriber
\* matches, and Ralph is never chosen when any configured hat matches.
C22_RoutingPriority ==
    rpc = "done" =>
        LET specific == { i \in 1..Len(registry) :
                            HasSpecificMatch(registry[i], route_topic) }
            wildcard == { i \in 1..Len(registry) : Star \in registry[i] }
        IN  /\ specific # {} =>
                /\ chosen \in specific
                /\ \A j \in specific : chosen <= j
            /\ (specific = {} /\ wildcard # {}) =>
                /\ chosen \in wildcard
                /\ \A j \in wildcard : chosen <= j
            /\ (specific = {} /\ wildcard = {}) => chosen = Ralph
            /\ (specific \cup wildcard) # {} => chosen # Ralph

\* a `*` subscriber registered first is passed over for the specific
\* subscriber registered after it
C22_Witness ==
    /\ rpc = "done"
    /\ Len(registry) = 2
    /\ registry[1] = {Star}
    /\ registry[2] = {<<"a", ".", "*">>}
    /\ route_topic = <<"a", ".", "c">>
    /\ chosen = 2

\* ------------------------------------------------- the run, on agent text
\* The dispatch loop with the agent's output as text: each iteration's
\* output is parsed by EventParser::parse and tested by contains_promise.

MaxLoopEvents == 4

BuildDoneTopic == <<"b", "u", "i", "l", "d", ".", "d", "o", "n", "e">>

BuildBlockedTopic ==
    <<"b", "u", "i", "l", "d", ".", "b", "l", "o", "c", "k", "e", "d">>

Sentinel == <<"L", "C">>

\* what an agent writes: two plain events, one of them with the sentinel as
\* payload, a build.done without evidence, and free text
BlockA == Piece("block", <<"a">>, NoValue, <<"x">>)

BlockSentinel == Piece("block", <<"b">>, NoValue, Sentinel)

BlockDone == Piece("block", BuildDoneTopic, NoValue, <<"x">>)

TextL == Piece("text", <<>>, NoValue, <<"L">>)

TextC == Piece("text", <<>>, NoValue, <<"C">>)

TextSentinel == Piece("text", <<>>, NoValue, Sentinel)

AgentOutputs ==
    { <<>>,
      <<BlockA>>,
      <<BlockSentinel>>,
      <<BlockA, BlockSentinel>>,
      <<BlockSentinel, BlockA>>,
      <<BlockDone, BlockA>>,
      <<TextSentinel>>,
      <<BlockA, TextSentinel>>,
      <<TextL, BlockA, TextC>>,
      <<TextL, BlockSentinel, TextC>> }

SeedEvent == [topic |-> <<"t">>, payload |-> <<"o">>, target |-> NoValue]

\* the synthesised build.blocked event for a rejected build.done
BlockedFor(ev) ==
    [topic |-> BuildBlockedTopic,
     payload |-> MissingChecks(parse_backpressure_evidence(ev.payload)),
     target |-> NoValue]

\* backpressure gating: the event that is journalled and enqueued for ev
Gate(ev) ==
    IF /\ ev.topic = BuildDoneTopic
       /\ ~EvidenceAccepted(parse_backpressure_evidence(ev.payload))
    THEN BlockedFor(ev)
    ELSE ev

\* the pending queue after an event is enqueued
Enqueue(q, ev) == Append(q, ev)

\* the run may end successfully: the sentinel check returned true
Completes(sentinel_found) == sentinel_found

LoopInit ==
    /\ CtrlIdle
    /\ PtyIdle
    /\ PureIdle
    /\ TuiIdle
    /\ output = <<>>
    /\ promise = Sentinel
    /\ stripped = <<>>
    /\ found = FALSE
    /\ ppc = "none"
    /\ pieces = <<>>
    /\ events = <<>>
    /\ restripped = <<>>
    /\ dpc = "idle"
    /\ queue = <<SeedEvent>>
    /\ journal = <<SeedEvent>>
    /\ parsed = <<>>
    /\ produced = 0

LoopFrameRest == UNCHANGED <<ctrlVars, ptyVars, pureVars, tuiVars>>

\* the executor returns the agent's output: it is parsed and tested for the
\* sentinel
LoopExecute ==
    /\ dpc = "exec"
    /\ \E ps \in AgentOutputs :
          /\ produced + Len(BlocksOf(ps)) <= MaxLoopEvents
          /\ pieces' = ps
          /\ output' = Serialise(ps)
    /\ stripped' = strip_event_tags(output')
    /\ events' = parse(output')
    /\ found' = contains_promise(output', promise)
    /\ parsed' = events'
    /\ produced' = produced + Len(events')
    /\ dpc' = "gate"
    /\ UNCHANGED <<promise, ppc, restripped, queue, journal>>
    /\ LoopFrameRest

\* the executor reports IdleTimeout, UserInterrupt or ForceKill: the run
\* ends with that reason
ExecutorStops ==
    /\ dpc = "exec"
    /\ dpc' = "stopped"
    /\ UNCHANGED <<parserVars, queue, journal, parsed, produced>>
    /\ LoopFrameRest

\* the next parsed event is gated, journalled and enqueued
Accept ==
    /\ dpc = "gate"
    /\ parsed # <<>>
    /\ journal' = Append(journal, Gate(Head(parsed)))
    /\ queue' = Enqueue(queue, Gate(Head(parsed)))
    /\ parsed' = Tail(parsed)
    /\ UNCHANGED <<parserVars, dpc, produced>>
    /\ LoopFrameRest

\* every parsed event is dealt with, the sentinel was found and the
\* completion prerequisites are met: the run ends successfully
Complete ==
    /\ dpc = "gate"
    /\ parsed = <<>>
    /\ Completes(found)
    /\ dpc' = "completed"
    /\ UNCHANGED <<parserVars, queue, journal, parsed, produced>>
    /\ LoopFrameRest

\* every parsed event is dealt with and the run goes on: no sentinel, or
\* the completion prerequisites are not met
Continue ==
    /\ dpc = "gate"
    /\ parsed = <<>>
    /\ dpc' = "idle"
    /\ UNCHANGED <<parserVars, queue, journal, parsed, produced>>
    /\ LoopFrameRest

LoopNext ==
    \/ Dequeue
    \/ Starved
    \/ LoopExecute
    \/ ExecutorStops
    \/ Accept
    \/ Complete
    \/ Continue

SpecLoop == LoopInit /\ [][LoopNext]_vars

\* --------------------------------------------------- claims on the run

\* the last n entries of a sequence
LastN(q, n) == SubSeq(q, Len(q) - n + 1, Len(q))

\* the number of events of this iteration's output already dealt with
Gated == Len(events) - Len(parsed)

\* C23: the accepted events of one iteration are enqueued in the order the
\* parser returned them, which is the order of the event blocks in the
\* output, and the pending queue is a global FIFO: the
\* pending events are the latest accepted ones in the order of their
\* acceptance, an event is enqueued behind all pending ones, and the event
\* dequeued is the one accepted before all other pending ones.
C23_GlobalFifo ==
    /\ [](Len(queue) <= Len(journal) /\ queue = LastN(journal, Len(queue)))
    /\ [](dpc = "gate" =>
            /\ Gated \in 0..Len(events)
            /\ Gated <= Len(journal)
            /\ parsed = LastN(events, Len(parsed))
            /\ Len(events) = Len(BlocksOf(pieces))
            /\ \A i \in 1..Len(events) : events[i] = EventOf(BlocksOf(pieces)[i])
            /\ \A i \in 1..Gated :
                  LET accepted == LastN(journal, Gated)[i]
                  IN  \/ accepted = events[i]
                      \/ /\ events[i].topic = BuildDoneTopic
                         /\ accepted.topic = BuildBlockedTopic)
    /\ [][queue' # queue =>
            \/ /\ queue # <<>>
               /\ queue' = Tail(queue)
               /\ journal' = journal
            \/ /\ Len(journal') = Len(journal) + 1
               /\ SubSeq(journal', 1, Len(journal)) = journal
               /\ queue' = queue \o <<journal'[Len(journal')]>>]_vars

\* the first iteration emitted two events, the first of them was dequeued
\* for the second iteration, whose two events are pending behind the other
C23_Witness ==
    /\ dpc = "idle"
    /\ journal = <<SeedEvent, EventOf(BlockA), EventOf(BlockSentinel),
                   EventOf(BlockSentinel), EventOf(BlockA)>>
    /\ queue = <<EventOf(BlockSentinel), EventOf(BlockSentinel), EventOf(BlockA)>>

\* C24 (as claimed): the run ends successfully only after an iteration
\* whose output holds the sentinel outside every event block; an iteration
\* whose only occurrences of the sentinel are inside event payloads does
\* not end the run.
C24_CompletionNeedsSentinelOutsideBlocks ==
    dpc = "completed" =>
        /\ Contains(stripped, promise)
        /\ \E i \in Occurrences(output, promise) : ~InsideBlock(output, promise, i)

\* ---------------------------------------------------------------- prompts
\* Prompt texts are sequences of tokens: every line of a literal of the
\* source is one token, and the texts the prompts are built from (paths,
\* guardrails, names, instructions, topics, contexts) are sequences of
\* tokens.  The character U+0060 of the source is written ' and a run of
\* non-ASCII characters is written ~.

\* [String]::join(sep), on texts
RECURSIVE Join(_, _)
Join(texts, sep) ==
    IF texts = <<>> THEN <<>>
    ELSE IF Len(texts) = 1 THEN texts[1]
    ELSE texts[1] \o sep \o Join(Tail(texts), sep)

\* the texts of a sequence of topics (Topic::as_str)
AsStrs(topics) == [i \in 1..Len(topics) |-> <<topics[i]>>]

\* Option<&str>: the empty set is None
NoBehavior == {}

\* InstructionBuilder::build_core_behaviors with the guardrails left out
BuildCoreBehaviorsWithoutGuardrails(self) ==
    <<"## CORE BEHAVIORS\n",
      "**Scratchpad:** '">>
    \o self.core.scratchpad
    \o <<"' is shared state. Read it. Update it.\n",
      "**Specs:** '">>
    \o self.core.specs_dir
    \o <<"' is the source of truth. Implementations must match.\n\n",
      "**IMPORTANT**: Less is more, do the smallest, atomic task possible. Leave work for future workers.\n\n",
      "### Guardrails\n">>
    \o <<>>
    \o <<"\n">>

\* InstructionBuilder::build_core_behaviors
build_core_behaviors(self) ==
    LET guardrails ==
            Join([i \in 1..Len(self.core.guardrails) |->
                    <<"- ">> \o self.core.guardrails[i]], <<"\n">>)
    IN
        <<"## CORE BEHAVIORS\n",
          "**Scratchpad:** '">>
        \o self.core.scratchpad
        \o <<"' is shared state. Read it. Update it.\n",
          "**Specs:** '">>
        \o self.core.specs_dir
        \o <<"' is the source of truth. Implementations must match.\n\n",
          "**IMPORTANT**: Less is more, do the smallest, atomic task possible. Leave work for future workers.\n\n",
          "### Guardrails\n">>
        \o guardrails
        \o <<"\n">>

\* InstructionBuilder::build_coordinator
build_coordinator(self, prompt_content) ==
    LET core_behaviors == build_core_behaviors(self)
    IN
        <<"You are Ralph. You've got your planner hat on.\n\n">>
        \o core_behaviors
        \o <<"\n\n",
          "## PLANNER MODE\n\n",
          "You're planning, not building.\n\n",
          "1. **Gap analysis.** Compare '">>
        \o self.core.specs_dir
        \o <<"' against codebase. What's missing? Broken?\n\n",
          "2. **Own the scratchpad.** Create or update '">>
        \o self.core.scratchpad
        \o <<"' with prioritized tasks.\n",
          "   - '[ ]' pending\n",
          "   - '[x]' done\n",
          "   - '[~]' cancelled (with reason)\n\n",
          "3. **Dispatch work.** Publish '<event topic=\"build.task\">' ONE AT A TIME for the highest priority task. Clear acceptance criteria.\n\n",
          "4. **Validate.** When build reports done, verify it satisfies the spec.\n\n",
          "## DON'T\n\n",
          "- ~ Write implementation code\n",
          "- ~ Run tests or make commits\n",
          "- ~ Pick tasks to implement yourself\n",
          "- ~ Output ">>
        \o self.completion_promise
        \o <<" until you've created tasks AND they've all been completed\n\n",
          "## DONE\n\n",
          "**Prerequisites** (ALL must be true before outputting ">>
        \o self.completion_promise
        \o <<"):\n",
          "1. Scratchpad exists with at least one task\n",
          "2. You dispatched work to the builder at least once\n",
          "3. ALL tasks are marked '[x]' (done) or '[~]' (cancelled)\n",
          "4. Specs are satisfied\n\n",
          "Only when ALL prerequisites are met, output: ">>
        \o self.completion_promise
        \o <<"\n\n",
          "---\n">>
        \o prompt_content

\* InstructionBuilder::build_ralph
build_ralph(self, prompt_content) ==
    LET core_behaviors == build_core_behaviors(self)
    IN
        <<"You are Ralph. You've got your builder hat on.\n\n">>
        \o core_behaviors
        \o <<"\n\n",
          "## BUILDER MODE\n\n",
          "You're building, not planning. One task, then exit.\n\n",
          "1. **Pick ONE task.** Highest priority '[ ]' from '">>
        \o self.core.scratchpad
        \o <<"'.\n",
          "   - **Known Issues are HIGH PRIORITY.** Check 'ISSUES.md' in the repo root. Fixing known issues takes precedence. Once fixed, remove the issue from 'ISSUES.md'.\n\n",
          "2. **Implement.** Write the code. Follow existing patterns.\n\n",
          "3. **Validate.** Run backpressure. Must pass.\n\n",
          "4. **Commit.** One task, one commit. Mark '[x]' in scratchpad.\n\n",
          "5. **Exit.** Publish '<event topic=\"build.done\">' with evidence:\n",
          "   '''\n",
          "   <event topic=\"build.done\">\n",
          "   tests: pass\n",
          "   lint: pass\n",
          "   typecheck: pass\n",
          "   </event>\n",
          "   '''\n",
          "   All three checks must show \"pass\" or the event will be rejected.\n\n",
          "## DON'T\n\n",
          "- ~ Create the scratchpad (planner does that)\n",
          "- ~ Decide what tasks to add (planner does that)\n",
          "- ~ Output the completion promise (planner does that)\n\n",
          "## STUCK?\n\n",
          "Can't finish? Publish '<event topic=\"build.blocked\">' with:\n",
          "- What you tried\n",
          "- Why it failed\n",
          "- What would unblock you\n\n",
          "---\n">>
        \o prompt_content

\* derive_instructions_from_contract: the built-in behaviour of a trigger
DefaultOnTrigger(trigger_str) ==
    CASE trigger_str \in {"task.start", "task.resume"} ->
            {<<"Analyze the task and create a plan in the scratchpad.">>}
      [] trigger_str = "build.done" ->
            {<<"Review the completed work and decide next steps.">>}
      [] trigger_str = "build.blocked" ->
            {<<"Analyze the blocker and decide how to unblock (simplify task, gather info, or escalate).">>}
      [] trigger_str = "build.task" ->
            {<<"Implement the assigned task. Follow existing patterns. Run backpressure (tests/checks). Commit when done.">>}
      [] trigger_str = "review.request" ->
            {<<"Review the recent changes for correctness, tests, patterns, errors, and security.">>}
      [] trigger_str = "review.approved" ->
            {<<"Mark the task complete '[x]' and proceed to next task.">>}
      [] trigger_str = "review.changes_requested" ->
            {<<"Add fix tasks to scratchpad and dispatch.">>}
      [] OTHER -> NoBehavior

\* derive_instructions_from_contract: the built-in behaviour of a publish
DefaultOnPublish(publish_str) ==
    CASE publish_str = "build.task" ->
            {<<"Dispatch ONE AT A TIME for pending '[ ]' tasks.">>}
      [] publish_str = "build.done" ->
            {<<"When implementation is finished and tests pass.">>}
      [] publish_str = "build.blocked" ->
            {<<"When stuck - include what you tried and why it failed.">>}
      [] publish_str = "review.request" ->
            {<<"After build completion, before marking done.">>}
      [] publish_str = "review.approved" ->
            {<<"If changes look good and meet requirements.">>}
      [] publish_str = "review.changes_requested" ->
            {<<"If issues found - include specific feedback.">>}
      [] OTHER -> NoBehavior

\* derive_instructions_from_contract: the behaviours pushed for one trigger
OnTrigger(self, trigger_str) ==
    IF /\ trigger_str \in DOMAIN self.events
       /\ self.events[trigger_str].on_trigger # <<>>
    THEN << <<"**On '", trigger_str, "':** ">> \o self.events[trigger_str].on_trigger >>
    ELSE IF DefaultOnTrigger(trigger_str) = NoBehavior THEN <<>>
    ELSE << <<"**On '", trigger_str, "':** ">>
                \o (CHOOSE b \in DefaultOnTrigger(trigger_str) : TRUE) >>

\* derive_instructions_from_contract: the behaviours pushed for one publish
OnPublish(self, publish_str) ==
    IF /\ publish_str \in DOMAIN self.events
       /\ self.events[publish_str].on_publish # <<>>
    THEN << <<"**Publish '", publish_str, "':** ">> \o self.events[publish_str].on_publish >>
    ELSE IF DefaultOnPublish(publish_str) = NoBehavior THEN <<>>
    ELSE << <<"**Publish '", publish_str, "':** ">>
                \o (CHOOSE b \in DefaultOnPublish(publish_str) : TRUE) >>

\* derive_instructions_from_contract: the two for loops
RECURSIVE TriggerBehaviors(_, _)
TriggerBehaviors(self, topics) ==
    IF topics = <<>> THEN <<>>
    ELSE OnTrigger(self, Head(topics)) \o TriggerBehaviors(self, Tail(topics))

RECURSIVE PublishBehaviors(_, _)
PublishBehaviors(self, topics) ==
    IF topics = <<>> THEN <<>>
    ELSE OnPublish(self, Head(topics)) \o PublishBehaviors(self, Tail(topics))

\* InstructionBuilder::derive_instructions_from_contract
derive_instructions_from_contract(self, hat) ==
    LET must_publish ==
            IF hat.publishes # <<>>
            THEN << <<"**IMPORTANT:** Every iteration MUST publish one of: '">>
                      \o Join(AsStrs(hat.publishes), <<"', '">>)
                      \o <<"' or the loop will terminate.">> >>
            ELSE <<>>
        behaviors ==
            TriggerBehaviors(self, hat.subscriptions)
                \o PublishBehaviors(self, hat.publishes)
                \o must_publish
    IN  IF behaviors = <<>>
        THEN <<"Follow the incoming event instructions.">>
        ELSE <<"### Derived Behaviors\n\n">> \o Join(behaviors, <<"\n\n">>)

\* the first token of the must-publish clause of build_custom_hat
MustPublishIntro ==
    <<"\n\n**You MUST publish one of these events based on your task results:** ">>

\* build_custom_hat: must_publish for a hat that publishes
MustPublish(hat) ==
    MustPublishIntro
        \o <<"'">> \o Join(AsStrs(hat.publishes), <<"', '">>) \o <<"'">>
        \o <<"\nFailure to publish will terminate the loop.">>

\* InstructionBuilder::build_custom_hat with the must-publish clause left
\* to the derived instructions
BuildCustomHatClauseWhenDerived(self, hat, events_context) ==
    LET core_behaviors == build_core_behaviors(self)
        role_instructions ==
            IF hat.instructions = <<>>
            THEN derive_instructions_from_contract(self, hat)
            ELSE hat.instructions
        publish_topics ==
            IF hat.publishes = <<>> THEN <<>>
            ELSE <<"You publish to: ">> \o Join(AsStrs(hat.publishes), <<", ">>)
        must_publish ==
            IF hat.publishes = <<>> \/ hat.instructions # <<>> THEN <<>>
            ELSE MustPublish(hat)
    IN
        <<"You are ">>
        \o hat.name
        \o <<". Fresh context each iteration.\n\n">>
        \o core_behaviors
        \o <<"\n\n",
          "## YOUR ROLE\n\n">>
        \o role_instructions
        \o <<"\n\n",
          "## THE RULES\n\n",
          "1. **One task, then exit.** The loop continues.\n\n",
          "## EVENTS\n\n",
          "Communicate via: '<event topic=\"...\">message</event>'\n">>
        \o publish_topics
        \o must_publish
        \o <<"\n\n",
          "## COMPLETION\n\n",
          "Only Coordinator outputs: ">>
        \o self.completion_promise
        \o <<"\n\n",
          "---\n",
          "INCOMING:\n">>
        \o events_context

\* InstructionBuilder::build_custom_hat
build_custom_hat(self, hat, events_context) ==
    LET core_behaviors == build_core_behaviors(self)
        role_instructions ==
            IF hat.instructions = <<>>
            THEN derive_instructions_from_contract(self, hat)
            ELSE hat.instructions
        publish_topics ==
            IF hat.publishes = <<>> THEN <<>>
            ELSE <<"You publish to: ">> \o Join(AsStrs(hat.publishes), <<", ">>)
        must_publish ==
            IF hat.publishes = <<>> THEN <<>>
            ELSE MustPublish(hat)
    IN
        <<"You are ">>
        \o hat.name
        \o <<". Fresh context each iteration.\n\n">>
        \o core_behaviors
        \o <<"\n\n",
          "## YOUR ROLE\n\n">>
        \o role_instructions
        \o <<"\n\n",
          "## THE RULES\n\n",
          "1. **One task, then exit.** The loop continues.\n\n",
          "## EVENTS\n\n",
          "Communicate via: '<event topic=\"...\">message</event>'\n">>
        \o publish_topics
        \o must_publish
        \o <<"\n\n",
          "## COMPLETION\n\n",
          "Only Coordinator outputs: ">>
        \o self.completion_promise
        \o <<"\n\n",
          "---\n",
          "INCOMING:\n">>
        \o events_context

\* HatlessRalph::core_prompt
core_prompt(self) ==
    LET guardrails ==
            Join([i \in 1..Len(self.core.guardrails) |->
                    <<ToString(999 + (i - 1)), ". ">> \o self.core.guardrails[i]],
                 <<"\n">>)
    IN
        <<"I'm Ralph. Fresh context each iteration.\n\n",
          "### 0a. ORIENTATION\n",
          "Study '">>
        \o self.core.specs_dir
        \o <<"' to understand requirements.\n",
          "Don't assume features aren't implemented~search first.\n\n",
          "### 0b. SCRATCHPAD\n",
          "Study '">>
        \o self.core.scratchpad
        \o <<"'. It's shared state. It's memory.\n\n",
          "Task markers:\n",
          "- '[ ]' pending\n",
          "- '[x]' done\n",
          "- '[~]' cancelled (with reason)\n\n",
          "### GUARDRAILS\n">>
        \o guardrails
        \o <<"\n\n">>

\* HatlessRalph::workflow_section
workflow_section(self) ==
    <<"## WORKFLOW\n\n",
      "### 1. GAP ANALYSIS\n",
      "Compare specs against codebase. Use parallel subagents (up to 10) for searches.\n\n",
      "### 2. PLAN\n",
      "Update '">>
    \o self.core.scratchpad
    \o <<"' with prioritized tasks.\n\n",
      "### 3. IMPLEMENT\n",
      "Pick ONE task. Only 1 subagent for build/tests.\n\n",
      "### 4. COMMIT\n",
      "Capture the why, not just the what. Mark '[x]' in scratchpad.\n\n",
      "### 5. REPEAT\n",
      "Until all tasks '[x]' or '[~]'.\n\n">>

\* HatlessRalph::hats_section: the rows of the hat table
RECURSIVE HatRows(_)
HatRows(hats) ==
    IF hats = <<>> THEN <<>>
    ELSE <<"| ">> \o Head(hats).name
            \o <<" | ">> \o Join(AsStrs(Head(hats).subscribes_to), <<", ">>)
            \o <<" | ">> \o Join(AsStrs(Head(hats).publishes), <<", ">>)
            \o <<" |\n">> \o HatRows(Tail(hats))

\* HatlessRalph::hats_section
hats_section(self, topology) ==
    <<"## HATS\n\nDelegate via events.\n\n">>
        \o <<"| Hat | Triggers On | Publishes |\n">>
        \o <<"|-----|-------------|----------|\n">>
        \o HatRows(topology.hats)
        \o <<"\n">>

\* HatlessRalph::event_writing_section
event_writing_section(self) ==
    <<"## EVENT WRITING\n\n",
      "Write events to '">>
    \o <<".agent/events.jsonl">>
    \o <<"' as:\n",
      "{\"topic\": \"build.task\", \"payload\": \"...\", \"ts\": \"2026-01-14T12:00:00Z\"}\n\n">>

\* HatlessRalph::done_section
done_section(self) ==
    <<"## DONE\n\n",
      "Output ">>
    \o self.completion_promise
    \o <<" when all tasks complete.\n">>

\* HatlessRalph::build_prompt
build_prompt(self, context) ==
    core_prompt(self)
        \o workflow_section(self)
        \o (IF self.hat_topology = {} THEN <<>>
            ELSE hats_section(self, CHOOSE t \in self.hat_topology : TRUE))
        \o event_writing_section(self)
        \o done_section(self)

\* --------------------------------------------- prompts: the event loop

\* the placeholder of a user template
ScratchpadPlaceholder == "{scratchpad}"

\* the template with its placeholders left as they are
SubstituteNothing(text, placeholder, value) == text

\* str::replace: each occurrence of the placeholder replaced by the value
RECURSIVE Substitute(_, _, _)
Substitute(text, placeholder, value) ==
    IF text = <<>> THEN <<>>
    ELSE (IF Head(text) = placeholder THEN value ELSE <<Head(text)>>)
            \o Substitute(Tail(text), placeholder, value)

\* the Ralph prompt the event loop builds for an iteration: the configured
\* template with its placeholders substituted, with or without the core
\* prompt before it, or else the built-in prompt
build_ralph_prompt(self, initial_prompt_template, context) ==
    IF initial_prompt_template = {}
    THEN {build_prompt(self, context)}
    ELSE LET body == Substitute(CHOOSE t \in initial_prompt_template : TRUE,
                                ScratchpadPlaceholder, self.core.scratchpad)
         IN  {body, core_prompt(self) \o body}

\* ------------------------------------------------ prompts: specification

MaxGuardrails == 2

GuardrailTexts == {<<"Fresh context each iteration">>, <<"Backpressure is law">>}

CoreConfigs ==
    [scratchpad : {<<".agent/scratchpad.md">>, <<".workspace/plan.md">>},
     specs_dir : {<<"./specs/">>},
     guardrails : UNION { [1..n -> GuardrailTexts] : n \in 0..MaxGuardrails }]

CompletionPromise == <<"LOOP_COMPLETE">>

\* the incoming context: none, an event, an event whose text repeats the
\* must-publish clause of an earlier prompt
Contexts ==
    {<<>>,
     <<"PR #123 ready">>,
     <<"The prompt said:">> \o MustPublishIntro \o <<"'", "review.approved", "'">>}

\* InstructionBuilder.events: no metadata, or metadata for one custom topic
EventMetadata ==
    { [t \in {} |-> [on_trigger |-> <<>>, on_publish |-> <<>>]],
      [t \in {"x.y"} |-> [on_trigger |-> <<"Handle it.">>,
                          on_publish |-> <<"When it is ready.">>]] }

Hats ==
    [name : {<<"Code Reviewer">>},
     instructions : {<<>>, <<"Review PRs for quality and correctness.">>},
     subscriptions : {<<>>, <<"review.request">>, <<"x.y", "q">>},
     publishes : {<<>>, <<"review.approved">>, <<"x.y", "review.changes_requested">>}]

\* HatlessRalph.hat_topology: None without hats, or the table of the hats
Topologies ==
    { {},
      {[hats |-> <<[name |-> <<"Planner">>,
                    subscribes_to |-> <<"task.start", "build.done">>,
                    publishes |-> <<"build.task">>]>>]} }

Templates ==
    { {},
      {<<"## SOLO MODE TEMPLATE\n", "Handle all tasks yourself.\n">>},
      {<<"## CUSTOM ORIENTATION\n", "Path: ", ScratchpadPlaceholder, "\n",
         "Scratchpad again: ", ScratchpadPlaceholder, "\n">>} }

InstructionBuilders ==
    [completion_promise : {CompletionPromise}, core : CoreConfigs,
     events : EventMetadata]

HatlessRalphs ==
    [completion_promise : {CompletionPromise}, core : CoreConfigs,
     hat_topology : Topologies]

PromptInit ==
    /\ ParserIdle
    /\ CtrlIdle
    /\ PtyIdle
    /\ DispIdle
    /\ EvidIdle
    /\ TopicIdle
    /\ RouteIdle
    /\ SideIdle
    /\ TuiIdle
    /\ composer \in {"planner", "builder", "custom", "ralph", "event_loop"}
    /\ incoming \in Contexts
    /\ IF composer \in {"planner", "builder", "custom"}
       THEN /\ instruction_builder \in InstructionBuilders
            /\ composer # "custom" => DOMAIN instruction_builder.events = {}
            /\ hatless_ralph = <<>>
       ELSE /\ instruction_builder = <<>>
            /\ hatless_ralph \in HatlessRalphs
    /\ IF composer = "custom" THEN custom_hat \in Hats ELSE custom_hat = <<>>
    /\ IF composer = "event_loop" THEN template \in Templates ELSE template = {}
    /\ prompt = <<>>
    /\ cpc = "input"

PromptFrame ==
    /\ UNCHANGED <<composer, instruction_builder, hatless_ralph, custom_hat,
                   incoming, template>>
    /\ UNCHANGED <<evidVars, topicVars, routeVars, sideVars, tuiVars>>
    /\ UNCHANGED <<parserVars, ctrlVars, ptyVars, dispVars>>

\* one call InstructionBuilder::build_coordinator(context)
ComposePlanner ==
    /\ cpc = "input"
    /\ composer = "planner"
    /\ prompt' = build_coordinator(instruction_builder, incoming)
    /\ cpc' = "done"
    /\ PromptFrame

\* one call InstructionBuilder::build_ralph(context)
ComposeBuilder ==
    /\ cpc = "input"
    /\ composer = "builder"
    /\ prompt' = build_ralph(instruction_builder, incoming)
    /\ cpc' = "done"
    /\ PromptFrame

\* one call InstructionBuilder::build_custom_hat(hat, context)
ComposeCustomHat ==
    /\ cpc = "input"
    /\ composer = "custom"
    /\ prompt' = build_custom_hat(instruction_builder, custom_hat, incoming)
    /\ cpc' = "done"
    /\ PromptFrame

\* one call HatlessRalph::build_prompt(context)
ComposeRalph ==
    /\ cpc = "input"
    /\ composer = "ralph"
    /\ prompt' = build_prompt(hatless_ralph, incoming)
    /\ cpc' = "done"
    /\ PromptFrame

\* the event loop builds the Ralph prompt of an iteration
ComposeRalphPrompt ==
    /\ cpc = "input"
    /\ composer = "event_loop"
    /\ prompt' \in build_ralph_prompt(hatless_ralph, template, incoming)
    /\ cpc' = "done"
    /\ PromptFrame

PromptNext ==
    \/ ComposePlanner
    \/ ComposeBuilder
    \/ ComposeCustomHat
    \/ ComposeRalph
    \/ ComposeRalphPrompt

SpecPrompt == PromptInit /\ [][PromptNext]_vars

\* ------------------------------------------------- claims on the prompts

\* the elements of a sequence
Range(q) == { q[i] : i \in 1..Len(q) }

\* the token that ends the must-publish clause
MustPublishEnd == "\nFailure to publish will terminate the loop."

\* p holds the must-publish clause from token i to token k
ClauseAt(p, i, k) ==
    /\ <<p[i]>> = MustPublishIntro
    /\ i < k
    /\ p[k] = MustPublishEnd
    /\ \A j \in (i + 1)..(k - 1) : p[j] # MustPublishEnd

\* the clause from i to k names the topic between two U+0060 characters
NamesTopic(p, i, k, topic) ==
    \E j \in (i + 2)..(k - 2) :
        /\ p[j] = topic
        /\ p[j - 1] \in {"'", "', '"}
        /\ p[j + 1] \in {"'", "', '"}

\* the prompt holds the must-publish clause naming every topic the hat
\* publishes
HasMustPublishClause ==
    \E i, k \in 1..Len(prompt) :
        /\ ClauseAt(prompt, i, k)
        /\ \A topic \in Range(custom_hat.publishes) : NamesTopic(prompt, i, k, topic)

\* C25 (as claimed): the output of build_custom_hat contains the "You MUST
\* publish one of these events" clause naming every topic of hat.publishes
\* if and only if hat.publishes is not empty, with explicit instructions
\* and with derived ones.
C25_MustPublishIffPublishesAsClaimed ==
    (cpc = "done" /\ composer = "custom") =>
        /\ custom_hat.publishes # <<>> => HasMustPublishClause
        /\ custom_hat.publishes = <<>> => ~Contains(prompt, MustPublishIntro)

\* none of the texts build_custom_hat is given holds the first words of the
\* clause
InputsWithoutClause ==
    /\ ~Contains(incoming, MustPublishIntro)
    /\ ~Contains(custom_hat.name, MustPublishIntro)
    /\ ~Contains(custom_hat.instructions, MustPublishIntro)
    /\ ~Contains(instruction_builder.completion_promise, MustPublishIntro)
    /\ ~Contains(instruction_builder.core.scratchpad, MustPublishIntro)
    /\ ~Contains(instruction_builder.core.specs_dir, MustPublishIntro)
    /\ \A g \in Range(instruction_builder.core.guardrails) :
          ~Contains(g, MustPublishIntro)
    /\ \A t \in DOMAIN instruction_builder.events :
          /\ ~Contains(instruction_builder.events[t].on_trigger, MustPublishIntro)
          /\ ~Contains(instruction_builder.events[t].on_publish, MustPublishIntro)

\* C25 (amended): the output of build_custom_hat contains the clause naming
\* every topic of hat.publishes whenever hat.publishes is not empty, with
\* explicit instructions and with derived ones; when hat.publishes is
\* empty it contains the first words of the clause only if one of the
\* texts it is given (context, name, instructions, configuration) does.
C25_MustPublishIffPublishes ==
    (cpc = "done" /\ composer = "custom") =>
        /\ custom_hat.publishes # <<>> => HasMustPublishClause
        /\ (custom_hat.publishes = <<>> /\ InputsWithoutClause)
              => ~Contains(prompt, MustPublishIntro)

\* a hat with explicit instructions and two topics to publish: the clause
\* names both
C25_Witness ==
    /\ cpc = "done"
    /\ composer = "custom"
    /\ custom_hat.instructions # <<>>
    /\ Len(custom_hat.publishes) = 2
    /\ InputsWithoutClause
    /\ HasMustPublishClause

\* the CoreConfig the composer was built with
CoreOf ==
    IF composer \in {"planner", "builder", "custom"}
    THEN instruction_builder.core
    ELSE hatless_ralph.core

\* C26: the prompts produced for the planner, the builder, a custom hat and
\* hatless Ralph each contain the configured scratchpad path, the
\* configured specs_dir path and every configured guardrail, whatever the
\* hat's own instructions are.
C26_CoreBehavioursInEveryPrompt ==
    (cpc = "done" /\ composer \in {"planner", "builder", "custom", "ralph"}) =>
        /\ Contains(prompt, CoreOf.scratchpad)
        /\ Contains(prompt, CoreOf.specs_dir)
        /\ \A i \in 1..Len(CoreOf.guardrails) : Contains(prompt, CoreOf.guardrails[i])

\* a custom hat with instructions of its own, under two different guardrails
C26_Witness ==
    /\ cpc = "done"
    /\ composer = "custom"
    /\ custom_hat.instructions # <<>>
    /\ Len(CoreOf.guardrails) = 2
    /\ CoreOf.guardrails[1] # CoreOf.guardrails[2]
    /\ CoreOf.scratchpad = <<".workspace/plan.md">>

\* the text of the template with the scratchpad path where its
\* placeholders are, read token by token
TemplateBodyAt(p, i, body, scratchpad) ==
    /\ i + Len(body) - 1 <= Len(p)
    /\ \A j \in 1..Len(body) :
          IF body[j] = ScratchpadPlaceholder
          THEN <<p[i + j - 1]>> = scratchpad
          ELSE p[i + j - 1] = body[j]

C28_ContextEmbedded ==
    (cpc = "done" /\ composer \in {"planner", "builder", "custom", "ralph"}) =>
        Contains(prompt, incoming)

\* ------------------------------------------------------------------- TUI
\* App::run, the observer closure the dispatcher calls, and the task App::new
\* spawns to feed the PTY output to the terminal widget.

MaxObserved == 2
MaxChunks == 1

TuiInit ==
    /\ ParserIdle
    /\ CtrlIdle
    /\ PtyIdle
    /\ DispIdle
    /\ PureIdle
    /\ apc = "start"
    /\ exit_path = "none"
    /\ raw_mode = FALSE
    /\ alt_screen = FALSE
    /\ state_lock = "free"
    /\ widget_lock = "free"
    /\ opc = "idle"
    /\ observed = 0
    /\ wpc = "recv"
    /\ chunks = 0

TuiFrame == UNCHANGED <<parserVars, ctrlVars, ptyVars, dispVars, pureVars>>

AppOnly == UNCHANGED <<opc, observed, wpc, chunks>> /\ TuiFrame

\* a `?` returns the error: the guards in scope are dropped
ReturnErr(path) ==
    /\ apc' = "returned"
    /\ exit_path' = path
    /\ state_lock' = IF state_lock = "app" THEN "free" ELSE state_lock
    /\ widget_lock' = IF widget_lock = "app" THEN "free" ELSE widget_lock
    /\ UNCHANGED <<raw_mode, alt_screen>>
    /\ AppOnly

\* the tick branch ends: its guards are dropped and the loop selects again
EndTick ==
    /\ apc' = "select"
    /\ state_lock' = "free"
    /\ widget_lock' = "free"
    /\ UNCHANGED <<exit_path, raw_mode, alt_screen>>
    /\ AppOnly

\* enable_raw_mode()?
EnableRawMode ==
    /\ apc = "start"
    /\ raw_mode' = TRUE
    /\ apc' = "enter_alt"
    /\ UNCHANGED <<exit_path, alt_screen, state_lock, widget_lock>>
    /\ AppOnly

EnableRawModeErr == apc = "start" /\ ReturnErr("setup_error")

\* execute!(stdout, EnterAlternateScreen)?
EnterAlternateScreen ==
    /\ apc = "enter_alt"
    /\ alt_screen' = TRUE
    /\ apc' = "new_terminal"
    /\ UNCHANGED <<exit_path, raw_mode, state_lock, widget_lock>>
    /\ AppOnly

EnterAlternateScreenErr == apc = "enter_alt" /\ ReturnErr("setup_error")

\* Terminal::new(backend)?
NewTerminal ==
    /\ apc = "new_terminal"
    /\ apc' = "select"
    /\ UNCHANGED <<exit_path, raw_mode, alt_screen, state_lock, widget_lock>>
    /\ AppOnly

NewTerminalErr == apc = "new_terminal" /\ ReturnErr("setup_error")

\* select!: the tick fires; self.state.lock().unwrap()
TickLockState ==
    /\ apc = "select"
    /\ state_lock = "free"
    /\ state_lock' = "app"
    /\ apc' = "lock_widget"
    /\ UNCHANGED <<exit_path, raw_mode, alt_screen, widget_lock>>
    /\ AppOnly

\* self.terminal_widget.lock().unwrap()
TickLockWidget ==
    /\ apc = "lock_widget"
    /\ widget_lock = "free"
    /\ widget_lock' = "app"
    /\ apc' = "draw"
    /\ UNCHANGED <<exit_path, raw_mode, alt_screen, state_lock>>
    /\ AppOnly

\* terminal.draw(..)?
Draw ==
    /\ apc = "draw"
    /\ apc' = "poll"
    /\ UNCHANGED <<exit_path, raw_mode, alt_screen, state_lock, widget_lock>>
    /\ AppOnly

DrawErr == apc = "draw" /\ ReturnErr("loop_error")

\* event::poll(0)? returns false
EventPollNothing == apc = "poll" /\ EndTick

\* event::poll(0)? returns true
EventPollReady ==
    /\ apc = "poll"
    /\ apc' = "read"
    /\ UNCHANGED <<exit_path, raw_mode, alt_screen, state_lock, widget_lock>>
    /\ AppOnly

EventPollErr == apc = "poll" /\ ReturnErr("loop_error")

\* event::read()? returns an event that is not a key press
EventReadOther == apc = "read" /\ EndTick

EventReadErr == apc = "read" /\ ReturnErr("loop_error")

\* event::read()? returns a key press: self.state.lock() is called while the
\* guard taken at the start of the tick branch is alive, and never returns.
\* The thread deadlocks,
KeyPressDeadlock ==
    /\ apc = "read"
    /\ apc' = "deadlocked"
    /\ exit_path' = "deadlock"
    /\ UNCHANGED <<raw_mode, alt_screen, state_lock, widget_lock>>
    /\ AppOnly

\* or it panics, and the unwinding poisons the two mutexes
KeyPressPanic ==
    /\ apc = "read"
    /\ apc' = "panicked"
    /\ exit_path' = "panic"
    /\ state_lock' = "poisoned"
    /\ widget_lock' = "poisoned"
    /\ UNCHANGED <<raw_mode, alt_screen>>
    /\ AppOnly

\* select!: tokio::signal::ctrl_c() completes; break
AppCtrlC ==
    /\ apc = "select"
    /\ apc' = "restore"
    /\ exit_path' = "ctrl_c"
    /\ UNCHANGED <<raw_mode, alt_screen, state_lock, widget_lock>>
    /\ AppOnly

\* disable_raw_mode()?
DisableRawMode ==
    /\ apc = "restore"
    /\ raw_mode' = FALSE
    /\ apc' = "leave_alt"
    /\ UNCHANGED <<exit_path, alt_screen, state_lock, widget_lock>>
    /\ AppOnly

DisableRawModeErr == apc = "restore" /\ ReturnErr("restore_error")

\* execute!(terminal.backend_mut(), LeaveAlternateScreen)?; Ok(())
LeaveAlternateScreen ==
    /\ apc = "leave_alt"
    /\ alt_screen' = FALSE
    /\ apc' = "returned"
    /\ UNCHANGED <<exit_path, raw_mode, state_lock, widget_lock>>
    /\ AppOnly

LeaveAlternateScreenErr == apc = "leave_alt" /\ ReturnErr("restore_error")

ObserverOnly ==
    /\ UNCHANGED <<apc, exit_path, raw_mode, alt_screen, widget_lock, wpc, chunks>>
    /\ TuiFrame

\* the dispatcher calls the observer closure for an accepted event
ObserverCalled ==
    /\ opc = "idle"
    /\ observed < MaxObserved
    /\ observed' = observed + 1
    /\ opc' = "lock"
    /\ UNCHANGED state_lock
    /\ ObserverOnly

\* state.lock() returns Ok once the mutex is free
ObserverLock ==
    /\ opc = "lock"
    /\ state_lock = "free"
    /\ state_lock' = "observer"
    /\ opc' = "update"
    /\ UNCHANGED observed
    /\ ObserverOnly

\* state.lock() returns Err on the poisoned mutex: the closure returns
ObserverPoisoned ==
    /\ opc = "lock"
    /\ state_lock = "poisoned"
    /\ opc' = "idle"
    /\ UNCHANGED <<state_lock, observed>>
    /\ ObserverOnly

\* s.update(event); the guard is dropped and the closure returns
ObserverUpdate ==
    /\ opc = "update"
    /\ state_lock' = "free"
    /\ opc' = "idle"
    /\ UNCHANGED observed
    /\ ObserverOnly

OutputOnly ==
    /\ UNCHANGED <<apc, exit_path, raw_mode, alt_screen, state_lock, opc, observed>>
    /\ TuiFrame

\* output_rx.recv().await returns a chunk
OutputRecv ==
    /\ wpc = "recv"
    /\ chunks < MaxChunks
    /\ chunks' = chunks + 1
    /\ wpc' = "lock"
    /\ UNCHANGED widget_lock
    /\ OutputOnly

\* widget_clone.lock() returns Ok once the mutex is free
OutputLock ==
    /\ wpc = "lock"
    /\ widget_lock = "free"
    /\ widget_lock' = "task"
    /\ wpc' = "process"
    /\ UNCHANGED chunks
    /\ OutputOnly

\* widget_clone.lock() returns Err on the poisoned mutex
OutputPoisoned ==
    /\ wpc = "lock"
    /\ widget_lock = "poisoned"
    /\ wpc' = "recv"
    /\ UNCHANGED <<widget_lock, chunks>>
    /\ OutputOnly

\* widget.process(&bytes); the guard is dropped
OutputProcess ==
    /\ wpc = "process"
    /\ widget_lock' = "free"
    /\ wpc' = "recv"
    /\ UNCHANGED chunks
    /\ OutputOnly

AppStep ==
    \/ EnableRawMode
    \/ EnterAlternateScreen
    \/ NewTerminal
    \/ TickLockState
    \/ TickLockWidget
    \/ Draw
    \/ EventPollNothing
    \/ EventPollReady
    \/ EventReadOther
    \/ KeyPressDeadlock
    \/ KeyPressPanic
    \/ AppCtrlC
    \/ DisableRawMode
    \/ LeaveAlternateScreen

AppErrStep ==
    \/ EnableRawModeErr
    \/ EnterAlternateScreenErr
    \/ NewTerminalErr
    \/ DrawErr
    \/ EventPollErr
    \/ EventReadErr
    \/ DisableRawModeErr
    \/ LeaveAlternateScreenErr

ObserverStep ==
    \/ ObserverCalled
    \/ ObserverLock
    \/ ObserverPoisoned
    \/ ObserverUpdate

OutputStep ==
    \/ OutputRecv
    \/ OutputLock
    \/ OutputPoisoned
    \/ OutputProcess

TuiNext == AppStep \/ AppErrStep \/ ObserverStep \/ OutputStep

SpecTui == TuiInit /\ [][TuiNext]_vars

\* ---------------------------------------------------- claims on the TUI

\* C29 (as claimed): once App::run has enabled raw mode and the alternate
\* screen, both are disabled again when it returns, on a normal quit, on
\* Ctrl+C and on every error return from inside the loop.
C29_TerminalRestoredOnEveryExit ==
    (apc = "returned" /\ exit_path \in {"quit", "ctrl_c", "loop_error"}) =>
        /\ raw_mode = FALSE
        /\ alt_screen = FALSE

\* C30 (as claimed): the observer callback never waits on the TUI: it is
\* never at its state.lock() while the TUI loop holds the state mutex.
C30_ObserverNeverWaits ==
    ~(opc = "lock" /\ state_lock = "app")

\* ----------------------------------------------------------- InputRouter

\* A KeyEvent is its code ("Char" with the character `ch`, or a key that
\* carries no character) and whether its modifiers contain CONTROL.

NoKey == [code |-> "none", ch |-> "", ctrl |-> FALSE]

is_prefix(key) == key.code = "Char" /\ key.ch = "a" /\ key.ctrl

\* an Option<char>
extract_char(key) == IF key.code = "Char" THEN {key.ch} ELSE {}

\* a route_key that stays armed when the prefix is pressed again
RouteKeyPrefixRearms(self_mode, key) ==
    IF self_mode = "Normal"
    THEN IF is_prefix(key)
         THEN [mode |-> "AwaitingCommand",
               result |-> [kind |-> "Consumed", key |-> NoKey, cmd |-> "none"]]
         ELSE [mode |-> self_mode,
               result |-> [kind |-> "Forward", key |-> key, cmd |-> "none"]]
    ELSE IF is_prefix(key)
         THEN [mode |-> "AwaitingCommand",
               result |-> [kind |-> "Consumed", key |-> NoKey, cmd |-> "none"]]
         ELSE IF extract_char(key) # {}
         THEN LET c == CHOOSE ch \in extract_char(key) : TRUE
              IN  [mode |-> "Normal",
                   result |-> [kind |-> "Command", key |-> NoKey,
                               cmd |-> CASE c = "q" -> "Quit"
                                         [] c = "?" -> "Help"
                                         [] c = "p" -> "Pause"
                                         [] OTHER -> "Unknown"]]
         ELSE [mode |-> "Normal",
               result |-> [kind |-> "Consumed", key |-> NoKey, cmd |-> "none"]]

\* InputRouter::route_key: the mode it leaves in self.mode and the
\* RouteResult it returns
route_key(self_mode, key) ==
    IF self_mode = "Normal"
    THEN IF is_prefix(key)
         THEN [mode |-> "AwaitingCommand",
               result |-> [kind |-> "Consumed", key |-> NoKey, cmd |-> "none"]]
         ELSE [mode |-> self_mode,
               result |-> [kind |-> "Forward", key |-> key, cmd |-> "none"]]
    ELSE IF extract_char(key) # {}
         THEN LET c == CHOOSE ch \in extract_char(key) : TRUE
              IN  [mode |-> "Normal",
                   result |-> [kind |-> "Command", key |-> NoKey,
                               cmd |-> CASE c = "q" -> "Quit"
                                         [] c = "?" -> "Help"
                                         [] c = "p" -> "Pause"
                                         [] OTHER -> "Unknown"]]
         ELSE [mode |-> "Normal",
               result |-> [kind |-> "Consumed", key |-> NoKey, cmd |-> "none"]]

\* the number of keys routed in one run
MaxKeys == 3

\* the keys pressed: characters with and without Ctrl, and a key without a
\* character
Keys ==
    { [code |-> "Char", ch |-> c, ctrl |-> m] : c \in {"a", "q", "?", "p", "x"},
                                                 m \in BOOLEAN }
    \cup { [code |-> "Enter", ch |-> "", ctrl |-> m] : m \in BOOLEAN }

\* InputRouter::new()
InputInit ==
    /\ ParserIdle
    /\ CtrlIdle
    /\ PtyIdle
    /\ DispIdle
    /\ EvidIdle
    /\ TopicIdle
    /\ RouteIdle
    /\ PromptIdle
    /\ ScrollIdle
    /\ WebIdle
    /\ SessionIdle
    /\ TuiIdle
    /\ input_mode = "Normal"
    /\ routed = <<>>

\* one call self.route_key(key)
RouteKey ==
    /\ Len(routed) < MaxKeys
    /\ \E key \in Keys :
          LET r == route_key(input_mode, key)
          IN  /\ input_mode' = r.mode
              /\ routed' = Append(routed, [before |-> input_mode, key |-> key,
                                           result |-> r.result, after |-> r.mode])
    /\ UNCHANGED <<parserVars, ctrlVars, ptyVars, dispVars, tuiVars>>
    /\ UNCHANGED <<evidVars, topicVars, routeVars, promptVars, scrollVars, webVars,
                   sessionVars>>

InputNext == RouteKey

SpecInput == InputInit /\ [][InputNext]_vars

\* Ctrl+A: the character a with the CONTROL modifier
IsCtrlA(key) == key = [code |-> "Char", ch |-> "a", ctrl |-> TRUE]

\* the command the claim gives for the key that follows the prefix
CommandFor(key) ==
    CASE key.code # "Char" -> "none"
      [] key.ch = "q" -> "Quit"
      [] key.ch = "?" -> "Help"
      [] key.ch = "p" -> "Pause"
      [] OTHER -> "Unknown"

\* C31: Ctrl+A received in Normal mode is consumed and arms AwaitingCommand;
\* the next key is never forwarded but interpreted as a command (q is Quit,
\* ? is Help, p is Pause, any other character is Unknown, a key without a
\* character is consumed) and leaves the router in Normal mode; the router is
\* never in AwaitingCommand for two consecutive keys, and Forward is returned
\* only in Normal mode for keys other than the prefix, with the key itself.
C31_PrefixProtocol ==
    /\ \A i \in 1..Len(routed) :
          LET call == routed[i]
          IN  /\ (call.before = "Normal" /\ IsCtrlA(call.key)) =>
                     /\ call.result.kind = "Consumed"
                     /\ call.after = "AwaitingCommand"
              /\ call.before = "AwaitingCommand" =>
                     /\ call.after = "Normal"
                     /\ call.result.kind # "Forward"
                     /\ call.result.kind =
                            (IF call.key.code = "Char" THEN "Command" ELSE "Consumed")
                     /\ call.result.cmd = CommandFor(call.key)
              /\ call.result.kind = "Forward" =>
                     /\ call.before = "Normal"
                     /\ ~IsCtrlA(call.key)
                     /\ call.result.key = call.key
                     /\ call.after = "Normal"
              /\ i > 1 => ~(routed[i - 1].before = "AwaitingCommand"
                            /\ call.before = "AwaitingCommand")
              /\ i > 1 => call.before = routed[i - 1].after
    /\ input_mode = (IF routed = <<>> THEN "Normal" ELSE routed[Len(routed)].after)

\* Ctrl+A, then Ctrl+A again (the command Unknown), then a key forwarded
C31_Witness ==
    /\ Len(routed) = 3
    /\ IsCtrlA(routed[1].key)
    /\ IsCtrlA(routed[2].key)
    /\ routed[2].result.cmd = "Unknown"
    /\ routed[3].result.kind = "Forward"
    /\ input_mode = "Normal"

\* --------------------------------------------------------- ScrollManager

\* usize::MAX, scaled down: the arithmetic of usize is modulo UsizeMax + 1
UsizeMax == 7

\* usize::saturating_sub
saturating_sub(a, b) == IF a > b THEN a - b ELSE 0

\* ScrollManager::max_offset
max_offset(total, height) == saturating_sub(total, height)

\* ScrollManager::scroll_down
scroll_down(off, n) == saturating_sub(off, n)

\* ScrollManager::scroll_up, where `self.offset + n` wraps (overflow checks off)
scroll_up(off, n, total, height) ==
    LET sum == (off + n) % (UsizeMax + 1)
    IN  IF sum < max_offset(total, height) THEN sum ELSE max_offset(total, height)

\* the keys handle_key is called with
ScrollKeys == {"j", "Down", "k", "Up", "PageDown", "PageUp", "g", "G", "other"}

\* ScrollManager::handle_key: the offset it leaves
handle_key(key, off, total, height) ==
    CASE key \in {"j", "Down"} -> scroll_down(off, 1)
      [] key \in {"k", "Up"} -> scroll_up(off, 1, total, height)
      [] key = "PageDown" -> scroll_down(off, height)
      [] key = "PageUp" -> scroll_up(off, height, total, height)
      [] key = "g" -> max_offset(total, height)
      [] key = "G" -> 0
      [] OTHER -> off

\* ScrollManager::new()
ScrollInit ==
    /\ ParserIdle
    /\ CtrlIdle
    /\ PtyIdle
    /\ DispIdle
    /\ EvidIdle
    /\ TopicIdle
    /\ RouteIdle
    /\ PromptIdle
    /\ InputIdle
    /\ WebIdle
    /\ SessionIdle
    /\ TuiIdle
    /\ offset = 0
    /\ total_lines = 0
    /\ viewport_height = 24 % (UsizeMax + 1)
    /\ scroll_call = [op |-> "new", before |-> 0, max |-> 0]
    /\ scroll_panicked = FALSE

ScrollFrame ==
    /\ UNCHANGED <<parserVars, ctrlVars, ptyVars, dispVars, tuiVars>>
    /\ UNCHANGED <<evidVars, topicVars, routeVars, promptVars, inputVars, webVars,
                   sessionVars>>

\* update_dimensions(total, height), with its clamp_offset
UpdateDimensions ==
    /\ ~scroll_panicked
    /\ \E total \in 0..UsizeMax, height \in 0..UsizeMax :
          /\ total_lines' = total
          /\ viewport_height' = height
          /\ offset' = IF offset < max_offset(total, height)
                        THEN offset ELSE max_offset(total, height)
          /\ scroll_call' = [op |-> "update_dimensions", before |-> offset,
                             max |-> max_offset(total, height)]
    /\ UNCHANGED scroll_panicked
    /\ ScrollFrame

\* handle_key(key) returns
HandleKey ==
    /\ ~scroll_panicked
    /\ \E key \in ScrollKeys :
          /\ offset' = handle_key(key, offset, total_lines, viewport_height)
          /\ scroll_call' = [op |-> key, before |-> offset,
                             max |-> max_offset(total_lines, viewport_height)]
    /\ UNCHANGED <<total_lines, viewport_height, scroll_panicked>>
    /\ ScrollFrame

\* handle_key(key) panics: `self.offset + n` overflows with overflow checks on
HandleKeyOverflow ==
    /\ ~scroll_panicked
    /\ \E key \in {"k", "Up", "PageUp"} :
          /\ offset + (IF key = "PageUp" THEN viewport_height ELSE 1) > UsizeMax
          /\ scroll_call' = [op |-> key, before |-> offset,
                             max |-> max_offset(total_lines, viewport_height)]
    /\ scroll_panicked' = TRUE
    /\ UNCHANGED <<offset, total_lines, viewport_height>>
    /\ ScrollFrame

\* reset()
Reset ==
    /\ ~scroll_panicked
    /\ offset' = 0
    /\ scroll_call' = [op |-> "reset", before |-> offset,
                       max |-> max_offset(total_lines, viewport_height)]
    /\ UNCHANGED <<total_lines, viewport_height, scroll_panicked>>
    /\ ScrollFrame

ScrollNext == UpdateDimensions \/ HandleKey \/ HandleKeyOverflow \/ Reset

SpecScroll == ScrollInit /\ [][ScrollNext]_vars

\* C32 (as claimed): after any sequence of update_dimensions, handle_key and
\* reset calls, 0 <= offset <= max(0, total_lines - viewport_height);
\* scrolling up stops at that maximum, scrolling down stops at 0, and the
\* offset stays 0 whenever total_lines <= viewport_height.
C32_ScrollBounds ==
    LET maximum == IF total_lines > viewport_height
                   THEN total_lines - viewport_height ELSE 0
    IN  /\ ~scroll_panicked
        /\ 0 <= offset
        /\ offset <= maximum
        /\ (scroll_call.op \in {"k", "Up", "PageUp"} /\ scroll_call.before = maximum) =>
               offset = maximum
        /\ (scroll_call.op \in {"j", "Down", "PageDown"} /\ scroll_call.before = 0) =>
               offset = 0
        /\ total_lines <= viewport_height => offset = 0

\* ------------------------------------- claims on passthrough and capture

\* the bytes read from the PTY master so far: the child's bytes are numbered
\* in the order it wrote them, and the master hands them out in that order
BytesRead == [i \in 1..(emitted - Len(pty_pending)) |-> i]

\* C36 (as claimed): at every point of run_observe and run_interactive the
\* accumulated output equals, byte for byte and in order, the bytes written
\* through to the host stdout, and the output returned is exactly the bytes
\* read from the PTY master.
C36_PassthroughEqualsCaptureAsClaimed ==
    Running \/ pc \in {"returned_ok", "returned_err"} =>
        /\ pty_output = host_stdout
        /\ pc = "returned_ok" => pty_output = BytesRead

\* C36: as long as no write to the host stdout has failed, the accumulated
\* output equals the bytes written through and the bytes read from the
\* master, byte for byte and in order, so the output of an Ok result is
\* exactly the bytes read; a failed write ends the invocation with an Err,
\* the output accumulated before it being a prefix of what reached the host
\* stdout, which is a prefix of the bytes read.
C36_PassthroughEqualsCapture ==
    /\ (Running \/ pc = "returned_ok") /\ returned # "stdout_error" =>
           /\ pty_output = host_stdout
           /\ pty_output = BytesRead
    /\ returned = "stdout_error" =>
           /\ pc = "returned_err"
           /\ Len(pty_output) <= Len(host_stdout)
           /\ Len(host_stdout) <= Len(BytesRead)
           /\ pty_output = SubSeq(host_stdout, 1, Len(pty_output))
           /\ host_stdout = SubSeq(BytesRead, 1, Len(host_stdout))

\* an Ok result of two bytes, the child having written the second one after
\* the first had been read
C36_Witness ==
    /\ pc = "returned_ok"
    /\ returned = "Natural"
    /\ pty_output = <<1, 2>>
    /\ host_stdout = <<1, 2>>
    /\ pty_pending = <<>>
    /\ exited_itself

\* ------------------------------- claims on the output after a termination

C34_NoSelfDeadlock ==
    apc \notin {"deadlocked", "panicked"}

Servers == {"backend", "frontend"}

ServerState(c) == IF c = "backend" THEN backend ELSE frontend

\* the positions of execute that belong to a server
SpawnAt(c) == IF c = "backend" THEN "spawn_backend" ELSE "spawn_frontend"
StopAt(c) == IF c = "backend" THEN "stop_backend" ELSE "stop_frontend"
GraceAt(c) == IF c = "backend" THEN "grace_backend" ELSE "grace_frontend"

\* what follows terminate_gracefully(c): the shutdown branch stops the
\* backend, then the frontend; the other branches stop one server and return
AfterStop(c) ==
    IF c = "backend" /\ web_exit = "shutdown" THEN "stop_frontend" ELSE "returned"

\* execute after preflight, about to spawn the backend
WebInit ==
    /\ ParserIdle
    /\ CtrlIdle
    /\ PtyIdle
    /\ DispIdle
    /\ EvidIdle
    /\ TopicIdle
    /\ RouteIdle
    /\ PromptIdle
    /\ InputIdle
    /\ ScrollIdle
    /\ SessionIdle
    /\ TuiIdle
    /\ xpc = "spawn_backend"
    /\ backend = "none"
    /\ frontend = "none"
    /\ shutdown = {}
    /\ web_signals = <<>>
    /\ web_exit = "none"

WebFrame ==
    /\ UNCHANGED <<parserVars, ctrlVars, ptyVars, dispVars, tuiVars>>
    /\ UNCHANGED <<evidVars, topicVars, routeVars, promptVars, inputVars, scrollVars,
                   sessionVars>>

\* server c changes to state s
SetServer(c, s) ==
    /\ backend' = IF c = "backend" THEN s ELSE backend
    /\ frontend' = IF c = "frontend" THEN s ELSE frontend

\* AsyncCommand::new("npm")...spawn() returns Ok: the backend, then the frontend
Spawn(c) ==
    /\ xpc = SpawnAt(c)
    /\ SetServer(c, "running")
    /\ xpc' = IF c = "backend" THEN "spawn_frontend" ELSE "select"
    /\ UNCHANGED <<shutdown, web_signals, web_exit>>
    /\ WebFrame

\* spawn() returns Err, which `?` returns
SpawnErr(c) ==
    /\ xpc = SpawnAt(c)
    /\ xpc' = "returned"
    /\ web_exit' = IF c = "backend" THEN "backend_spawn_error" ELSE "frontend_spawn_error"
    /\ UNCHANGED <<backend, frontend, shutdown, web_signals>>
    /\ WebFrame

\* a running server exits, by itself or on a SIGTERM it has received
ServerExits(c) ==
    /\ xpc # "returned"
    /\ ServerState(c) = "running"
    /\ SetServer(c, "exited")
    /\ UNCHANGED <<xpc, shutdown, web_signals, web_exit>>
    /\ WebFrame

\* the signals that have a handler task
ShutdownSignals == {"SIGINT", "SIGTERM", "SIGHUP"}

\* the handler task of signal sig receives it and sends true on the shutdown
\* channel, once; the tasks exist once both servers are spawned
ShutdownSignal(sig) ==
    /\ xpc \notin {"spawn_backend", "spawn_frontend", "returned"}
    /\ sig \notin shutdown
    /\ shutdown' = shutdown \cup {sig}
    /\ UNCHANGED <<xpc, backend, frontend, web_signals, web_exit>>
    /\ WebFrame

\* select!: shutdown_rx.changed() completes
SelectShutdown ==
    /\ xpc = "select"
    /\ shutdown # {}
    /\ web_exit' = "shutdown"
    /\ xpc' = "stop_backend"
    /\ UNCHANGED <<backend, frontend, shutdown, web_signals>>
    /\ WebFrame

\* select!: c.wait() completes, which reaps c; the other server is stopped
SelectServerExit(c) ==
    /\ xpc = "select"
    /\ ServerState(c) = "exited"
    /\ SetServer(c, "reaped")
    /\ web_exit' = IF c = "backend" THEN "backend_exit" ELSE "frontend_exit"
    /\ xpc' = IF c = "backend" THEN "stop_frontend" ELSE "stop_backend"
    /\ UNCHANGED <<shutdown, web_signals>>
    /\ WebFrame

\* terminate_gracefully(c): child.id() is Some, as c has not been waited for,
\* and kill(pid, SIGTERM) succeeds, as the process or its zombie exists
TerminateSigterm(c) ==
    /\ xpc = StopAt(c)
    /\ ServerState(c) \in {"running", "exited"}
    /\ web_signals' = Append(web_signals, <<c, "SIGTERM">>)
    /\ xpc' = GraceAt(c)
    /\ UNCHANGED <<backend, frontend, shutdown, web_exit>>
    /\ WebFrame

\* timeout(grace_period, child.wait()) returns Ok: the server has exited
GraceExited(c) ==
    /\ xpc = GraceAt(c)
    /\ ServerState(c) = "exited"
    /\ SetServer(c, "reaped")
    /\ xpc' = AfterStop(c)
    /\ UNCHANGED <<shutdown, web_signals, web_exit>>
    /\ WebFrame

\* timeout(..) returns Err: the grace period elapsed with the server running;
\* kill(pid, SIGKILL) and child.wait()
GraceTimedOut(c) ==
    /\ xpc = GraceAt(c)
    /\ ServerState(c) = "running"
    /\ web_signals' = Append(web_signals, <<c, "SIGKILL">>)
    /\ SetServer(c, "reaped")
    /\ xpc' = AfterStop(c)
    /\ UNCHANGED <<shutdown, web_exit>>
    /\ WebFrame

WebNext ==
    \E c \in Servers :
        \/ Spawn(c)
        \/ SpawnErr(c)
        \/ ServerExits(c)
        \/ \E sig \in ShutdownSignals : ShutdownSignal(sig)
        \/ SelectShutdown
        \/ SelectServerExit(c)
        \/ TerminateSigterm(c)
        \/ GraceExited(c)
        \/ GraceTimedOut(c)

SpecWeb == WebInit /\ [][WebNext]_vars

\* C38 (as claimed): on every return path of execute after the backend has
\* been spawned (shutdown signal, either server exiting first, failure to
\* spawn the frontend), each server spawned has exited or been terminated
\* (SIGTERM, then SIGKILL after the grace period) and has been waited for.
C38_NoServerLeftRunning ==
    xpc = "returned" =>
        \A c \in Servers : ServerState(c) \in {"none", "reaped"}

\* ------------------------------------ PtyExecutor: invocations one after another

MaxInvocations == 2
MaxTyped == 2

ExecutorModes == {"observe", "interactive"}

Invocations == 1..Len(outcomes)

\* an invocation is between its call and its return
InvocationRunning == ipc # "idle"

\* MasterPty::take_writer of portable_pty: the writer of a master can be
\* taken once; a further call returns an error
take_writer(taken) == taken = 0

\* the reader thread after input_tx.send(event): `break` when the send failed
AfterSendNeverBreaks(ok) == "check"

AfterSend(ok) == IF ok THEN "check" ELSE "ended"

\* the index of the byte reader r has read and not yet sent
Held(r) ==
    CHOOSE k \in 1..Len(stdin_bytes) :
        stdin_bytes[k].reader = r /\ stdin_bytes[k].status = "read"

\* input_rx of invocation r is dropped with the events still in it
DropQueue(r) ==
    [k \in 1..Len(stdin_bytes) |->
        IF stdin_bytes[k].reader = r /\ stdin_bytes[k].status = "queued"
        THEN [stdin_bytes[k] EXCEPT !.status = "dropped"]
        ELSE stdin_bytes[k]]

\* the process before the first invocation
SessionInit ==
    /\ ParserIdle
    /\ CtrlIdle
    /\ PtyIdle
    /\ DispIdle
    /\ EvidIdle
    /\ TopicIdle
    /\ RouteIdle
    /\ PromptIdle
    /\ InputIdle
    /\ ScrollIdle
    /\ WebIdle
    /\ TuiIdle
    /\ inv = 0
    /\ ipc = "idle"
    /\ inv_mode = "none"
    /\ stdin_input = FALSE
    /\ writer_takes = 0
    /\ outcomes = <<>>
    /\ readers = <<>>
    /\ flags = <<>>
    /\ rx_open = <<>>
    /\ stdin_bytes = <<>>

SessionFrame ==
    /\ UNCHANGED <<parserVars, ctrlVars, ptyVars, dispVars, tuiVars>>
    /\ UNCHANGED <<evidVars, topicVars, routeVars, promptVars, inputVars, scrollVars,
                   webVars>>

\* the invocation ends with outcome e
End(e) ==
    /\ outcomes' = [outcomes EXCEPT ![inv].end = e]
    /\ ipc' = "idle"

\* run_observe or run_interactive is called; build_command supplies a stdin
\* payload or none
StartInvocation(m, payload) ==
    /\ ipc = "idle"
    /\ inv < MaxInvocations
    /\ inv' = inv + 1
    /\ inv_mode' = m
    /\ stdin_input' = payload
    /\ writer_takes' = 0
    /\ ipc' = "spawn_pty"
    /\ outcomes' = Append(outcomes, [mode |-> m, payload |-> payload, end |-> "running"])
    /\ readers' = Append(readers, "none")
    /\ flags' = Append(flags, FALSE)
    /\ rx_open' = Append(rx_open, FALSE)
    /\ UNCHANGED stdin_bytes
    /\ SessionFrame

\* spawn_pty: openpty, spawn_command, and the payload written through the
\* master's writer when there is one
SpawnPty ==
    /\ ipc = "spawn_pty"
    /\ writer_takes' = IF stdin_input /\ take_writer(writer_takes)
                       THEN writer_takes + 1
                       ELSE writer_takes
    /\ ipc' = IF inv_mode = "interactive" THEN "take_writer" ELSE "loop"
    /\ UNCHANGED <<inv, inv_mode, stdin_input, outcomes, readers, flags, rx_open,
                   stdin_bytes>>
    /\ SessionFrame

\* spawn_pty returns Err (openpty, spawn_command or the payload write)
SpawnPtyErr ==
    /\ ipc = "spawn_pty"
    /\ End("spawn_error")
    /\ UNCHANGED <<inv, inv_mode, stdin_input, writer_takes, readers, flags, rx_open,
                   stdin_bytes>>
    /\ SessionFrame

\* run_interactive: pair.master.take_writer()
TakeWriter ==
    /\ ipc = "take_writer"
    /\ IF take_writer(writer_takes)
       THEN /\ writer_takes' = writer_takes + 1
            /\ ipc' = "start_reader"
            /\ UNCHANGED outcomes
       ELSE /\ End("take_writer_error")
            /\ UNCHANGED writer_takes
    /\ UNCHANGED <<inv, inv_mode, stdin_input, readers, flags, rx_open, stdin_bytes>>
    /\ SessionFrame

\* run_interactive: the flags, the channel and the reader thread are created
StartReader ==
    /\ ipc = "start_reader"
    /\ rx_open' = [rx_open EXCEPT ![inv] = TRUE]
    /\ readers' = [readers EXCEPT ![inv] = "check"]
    /\ ipc' = "loop"
    /\ UNCHANGED <<inv, inv_mode, stdin_input, writer_takes, outcomes, flags, stdin_bytes>>
    /\ SessionFrame

\* reader thread r: should_terminate_clone.load
ReaderCheck(r) ==
    /\ readers[r] = "check"
    /\ readers' = [readers EXCEPT ![r] = IF flags[r] THEN "ended" ELSE "read"]
    /\ UNCHANGED <<inv, ipc, inv_mode, stdin_input, writer_takes, outcomes, flags,
                   rx_open, stdin_bytes>>
    /\ SessionFrame

\* reader thread r: stdin.read returns Ok(1); of the threads blocked on host
\* stdin, the system gives the byte to one
ReaderReads(r) ==
    /\ readers[r] = "read"
    /\ Len(stdin_bytes) < MaxTyped
    /\ stdin_bytes' = Append(stdin_bytes,
                             [reader |-> r,
                              during |-> IF InvocationRunning THEN inv ELSE 0,
                              live |-> rx_open[r],
                              status |-> "read"])
    /\ readers' = [readers EXCEPT ![r] = "send"]
    /\ UNCHANGED <<inv, ipc, inv_mode, stdin_input, writer_takes, outcomes, flags, rx_open>>
    /\ SessionFrame

\* reader thread r: stdin.read returns Ok(0) or an error other than Interrupted
ReaderEof(r) ==
    /\ readers[r] = "read"
    /\ readers' = [readers EXCEPT ![r] = "ended"]
    /\ UNCHANGED <<inv, ipc, inv_mode, stdin_input, writer_takes, outcomes, flags,
                   rx_open, stdin_bytes>>
    /\ SessionFrame

\* reader thread r: input_tx.send(event), which fails once input_rx is dropped
ReaderSend(r) ==
    /\ readers[r] = "send"
    /\ stdin_bytes' = [stdin_bytes EXCEPT ![Held(r)].status =
                           IF rx_open[r] THEN "queued" ELSE "dropped"]
    /\ readers' = [readers EXCEPT ![r] = AfterSend(rx_open[r])]
    /\ UNCHANGED <<inv, ipc, inv_mode, stdin_input, writer_takes, outcomes, flags, rx_open>>
    /\ SessionFrame

\* main loop of run_interactive: input_rx.try_recv() returns the oldest event
LoopRecv ==
    /\ ipc = "loop"
    /\ inv_mode = "interactive"
    /\ \E k \in 1..Len(stdin_bytes) :
        /\ stdin_bytes[k].reader = inv
        /\ stdin_bytes[k].status = "queued"
        /\ \A j \in 1..(k - 1) :
               ~(stdin_bytes[j].reader = inv /\ stdin_bytes[j].status = "queued")
        /\ stdin_bytes' = [stdin_bytes EXCEPT ![k].status = "received"]
    /\ UNCHANGED <<inv, ipc, inv_mode, stdin_input, writer_takes, outcomes, readers,
                   flags, rx_open>>
    /\ SessionFrame

\* the invocation returns Ok; run_interactive has stored should_terminate
\* (natural exit, or after the loop) and drops input_rx
InvocationReturnsOk ==
    /\ ipc = "loop"
    /\ End("ok")
    /\ flags' = [flags EXCEPT ![inv] = inv_mode = "interactive"]
    /\ rx_open' = [rx_open EXCEPT ![inv] = FALSE]
    /\ stdin_bytes' = DropQueue(inv)
    /\ UNCHANGED <<inv, inv_mode, stdin_input, writer_takes, readers>>
    /\ SessionFrame

\* the invocation returns Err from its loop through `?` (try_wait, a write to
\* host stdout): should_terminate is not stored; input_rx is dropped
InvocationReturnsErr ==
    /\ ipc = "loop"
    /\ End("io_error")
    /\ rx_open' = [rx_open EXCEPT ![inv] = FALSE]
    /\ stdin_bytes' = DropQueue(inv)
    /\ UNCHANGED <<inv, inv_mode, stdin_input, writer_takes, readers, flags>>
    /\ SessionFrame

SessionNext ==
    \/ \E m \in ExecutorModes, payload \in BOOLEAN : StartInvocation(m, payload)
    \/ SpawnPty
    \/ SpawnPtyErr
    \/ TakeWriter
    \/ StartReader
    \/ \E r \in Invocations : ReaderCheck(r)
    \/ \E r \in Invocations : ReaderReads(r)
    \/ \E r \in Invocations : ReaderEof(r)
    \/ \E r \in Invocations : ReaderSend(r)
    \/ LoopRecv
    \/ InvocationReturnsOk
    \/ InvocationReturnsErr

SpecSession == SessionInit /\ [][SessionNext]_vars

\* C33 (as claimed): within one invocation the master's writer is taken at
\* most once, so run_interactive obtains its writer and reaches the main loop
\* whether or not spawn_pty wrote a stdin payload to the master.
C33_WriterTakenOnce ==
    \A i \in Invocations : outcomes[i].end # "take_writer_error"

\* the reader threads blocked in stdin.read
Blocked == {r \in Invocations : readers[r] = "read"}

Bytes == 1..Len(stdin_bytes)

\* C35 (as claimed): every byte read from host stdin while an invocation runs
\* is delivered to that invocation's main loop: none is read by the reader
\* thread of an earlier invocation or dropped, and at most one reader thread
\* is blocked on host stdin at any time.
C35_EveryByteDeliveredAsClaimed ==
    /\ \A k \in Bytes :
        stdin_bytes[k].during # 0 =>
            /\ stdin_bytes[k].reader = stdin_bytes[k].during
            /\ stdin_bytes[k].status # "dropped"
    /\ Cardinality(Blocked) <= 1

\* C35 (amended): a byte reaches a main loop only when the reader thread of
\* the running invocation read it; a byte read by a reader thread whose
\* invocation has returned is dropped, and such a thread reads at most one
\* byte before it ends; the threads blocked on host stdin are at most one per
\* interactive invocation that reached its loop.
C35_EveryByteDelivered ==
    /\ \A k \in Bytes :
        /\ stdin_bytes[k].status \in {"queued", "received"} =>
              /\ stdin_bytes[k].live
              /\ stdin_bytes[k].reader = stdin_bytes[k].during
        /\ ~stdin_bytes[k].live => stdin_bytes[k].status \in {"read", "dropped"}
    /\ \A r \in Invocations :
        Cardinality({k \in Bytes : stdin_bytes[k].reader = r /\ ~stdin_bytes[k].live}) <= 1
    /\ \A r \in Blocked : outcomes[r].mode = "interactive"
    /\ Cardinality(Blocked) <= Cardinality({i \in Invocations : outcomes[i].mode = "interactive"})

\* the second invocation is in its loop with its reader thread blocked on host
\* stdin, and the reader thread of the first has read a byte typed during the
\* second and dropped it
C35_Witness ==
    /\ inv = 2
    /\ ipc = "loop"
    /\ readers[2] = "read"
    /\ \E k \in Bytes :
        /\ stdin_bytes[k].reader = 1
        /\ stdin_bytes[k].during = 2
        /\ stdin_bytes[k].status = "dropped"

====
